---- MODULE Spec2Model ----
(***************************************************************************)
(* DocForge: the SplitDocuments component (file selection, page-range      *)
(* parser, handleSplit), the CompressFiles component with its FileUpload   *)
(* widget, and createSplitDocuments, createProcessedDocument and           *)
(* createMergedDocument of downloadUtils.                                  *)
(*                                                                         *)
(* A JavaScript string is modelled as a sequence of one-character strings, *)
(* so "1-3" is <<"1", "-", "3">>.  A JavaScript number that may be NaN is  *)
(* modelled as a record [isNaN, value].                                    *)
(***************************************************************************)
EXTENDS Integers, Sequences, FiniteSets, TLC

VARIABLES
    splitRange,     \* SplitDocuments state: the page spec typed by the user
    totalPages,     \* SplitDocuments state: page count of the uploaded PDF
    pageNumbers,    \* handleSplit: the result of parsePageRanges(splitRange)
    ranges,         \* createSplitDocuments: the consecutive ranges it built
    splitFiles,     \* SplitDocuments state: the documents of the last split
    pc,             \* position in handleSplit
    \* SplitDocuments state
    uploadedFile,   \* the uploaded file, or NoFile
    isProcessing,   \* a split is running
    toast,          \* the title of the last toast shown
    \* one call of createSplitDocuments
    originalFile,   \* argument: the file to split
    namingPattern,  \* argument: the naming pattern
    csd,            \* position in createSplitDocuments
    extracted,      \* per range: the document made for it, or Pending
    completed,      \* the range indices in the order their documents were made
    promise,        \* state of the promise createSplitDocuments returned
    returned,       \* the list it resolved with
    error,          \* the message of the error it rejected with
    \* one call of createProcessedDocument
    compressionLevel,   \* argument: the level, or NoLevel
    byteLength,         \* arrayBuffer.byteLength, the size of the original
    compressedPdfBytes, \* length of the bytes of the last save
    saves,              \* the save attempts made, in order
    blob,               \* the blob returned
    cpd,                \* position in createProcessedDocument
    \* SplitDocuments: the calls of handleFileSelect
    loads,              \* the files whose load a call is awaiting
    \* one call of createMergedDocument
    files,              \* argument: the files to merge
    mergedPdf,          \* the pages added to the merged document so far
    mergePc,            \* position in createMergedDocument
    mergePromise,       \* the promise it returned: state and value
    \* CompressFiles and its FileUpload widget
    uploadedFiles,      \* CompressFiles state: the files to compress
    fileUploadFiles,    \* FileUpload state uploadedFiles: the files it lists
    compressedFiles,    \* CompressFiles state: the results shown
    isCompressing,      \* CompressFiles state: a run is in progress
    showUpload,         \* CompressFiles state: the upload view is shown
    compressed,         \* compressFiles: the local list of results
    cfIndex,            \* compressFiles: the loop index i plus one, 0 at rest
    closureFiles,       \* compressFiles: uploadedFiles as the run sees it
    cfPc                \* position in compressFiles

parseVars == <<splitRange, totalPages, pageNumbers, ranges, splitFiles, pc>>
uiVars == <<uploadedFile, isProcessing, toast>>
callVars ==
    <<originalFile, namingPattern, csd, extracted, completed, promise,
      returned, error>>
compressVars ==
    <<compressionLevel, byteLength, compressedPdfBytes, saves, blob, cpd>>

selectVars == <<loads>>
mergeVars == <<files, mergedPdf, mergePc, mergePromise>>
cfVars ==
    <<uploadedFiles, fileUploadFiles, compressedFiles, isCompressing,
      showUpload, compressed, cfIndex, closureFiles, cfPc>>

vars ==
    <<parseVars, uiVars, callVars, compressVars, selectVars, mergeVars,
      cfVars>>

NoFile == [name |-> <<>>, pages |-> 0]
NoLevel == "undefined"
Pending == [name |-> <<>>, pages |-> <<>>]

\* no file uploaded, nothing processing, no toast shown
UiIdle ==
    /\ uploadedFile = NoFile
    /\ isProcessing = FALSE
    /\ toast = "none"

\* createSplitDocuments is not running
CallIdle ==
    /\ originalFile = NoFile
    /\ namingPattern = <<>>
    /\ csd = "idle"
    /\ extracted = <<>>
    /\ completed = <<>>
    /\ promise = "none"
    /\ returned = <<>>
    /\ error = <<>>

\* createProcessedDocument is not running
CompressIdle ==
    /\ compressionLevel = NoLevel
    /\ byteLength = 0
    /\ compressedPdfBytes = 0
    /\ saves = <<>>
    /\ blob = [bytes |-> "none", size |-> 0, type |-> "none"]
    /\ cpd = "idle"

\* no call of handleFileSelect is awaiting a load
SelectIdle == loads = {}

\* createMergedDocument is not running
MergeIdle ==
    /\ files = <<>>
    /\ mergedPdf = <<>>
    /\ mergePc = [at |-> "idle", file |-> 0]
    /\ mergePromise = [state |-> "none", value |-> <<>>]

\* CompressFiles as mounted, and compressFiles not running
CfIdle ==
    /\ uploadedFiles = <<>>
    /\ fileUploadFiles = <<>>
    /\ compressedFiles = <<>>
    /\ isCompressing = FALSE
    /\ showUpload = TRUE
    /\ compressed = <<>>
    /\ cfIndex = 0
    /\ closureFiles = <<>>
    /\ cfPc = "idle"

(***************************************************************************)
(* Bounds of the model.                                                    *)
(***************************************************************************)
\* every string over Alphabet of at most this many characters is an input
MaxLen == 4
\* page counts 0..MaxPages are tried with those strings
MaxPages == 3
\* every comma-joined list of at most this many ExampleTokens is an input
MaxTokens == 2

Alphabet == {"0", "1", "2", "-", ",", " ", "x"}

\* the page counts tried with the lists of ExampleTokens
ExamplePageCounts == {7, 10}

ExampleTokens ==
    { <<"1", "-", "3">>, <<"5">>, <<"7", "-", "9">>, <<"3", "-", "1">>,
      <<"0">>, <<"1", "1">>, <<"2", ".", "5">>,
      <<"1", "-", "3", "-", "5">>,
      <<" ", " ", "2", " ">>, <<" ", "4", "-", "4", " ">>,
      <<"1", "-", "5">>, <<"3", "-", "7">> }

\* the page specs of the specification's examples:
\* "1-3,5,7-9", "3-1", "0,11", "  2 , 4-4 ", "1-5,3-7"
ExampleSpecs ==
    { <<"1", "-", "3", ",", "5", ",", "7", "-", "9">>,
      <<"3", "-", "1">>,
      <<"0", ",", "1", "1">>,
      <<" ", " ", "2", " ", ",", " ", "4", "-", "4", " ">>,
      <<"1", "-", "5", ",", "3", "-", "7">> }

(***************************************************************************)
(* JavaScript built-ins used by parsePageRanges.                           *)
(***************************************************************************)
\* mutant of IsWhiteSpace: no character is taken for white space
IsWhiteSpaceNever(c) == FALSE

\* the white space String.prototype.trim and parseInt strip
IsWhiteSpace(c) == c = " "

RECURSIVE trimStart(_)
trimStart(s) ==
    IF Len(s) > 0 /\ IsWhiteSpace(s[1]) THEN trimStart(Tail(s)) ELSE s

RECURSIVE trimEnd(_)
trimEnd(s) ==
    IF Len(s) > 0 /\ IsWhiteSpace(s[Len(s)])
    THEN trimEnd(SubSeq(s, 1, Len(s) - 1))
    ELSE s

\* String.prototype.trim
trim(s) == trimEnd(trimStart(s))

\* String.prototype.includes, for a one-character search string
includes(s, c) == \E i \in 1..Len(s) : s[i] = c

\* String.prototype.split, for a one-character separator: "" splits to [""]
RECURSIVE split(_, _)
split(s, sep) ==
    IF ~includes(s, sep)
    THEN <<s>>
    ELSE LET i == CHOOSE k \in 1..Len(s) :
                      s[k] = sep /\ \A j \in 1..(k - 1) : s[j] # sep
         IN  <<SubSeq(s, 1, i - 1)>> \o split(SubSeq(s, i + 1, Len(s)), sep)

LowerDigits ==
    <<"0", "1", "2", "3", "4", "5", "6", "7", "8", "9",
      "a", "b", "c", "d", "e", "f">>
UpperDigits ==
    <<"0", "1", "2", "3", "4", "5", "6", "7", "8", "9",
      "A", "B", "C", "D", "E", "F">>

\* c is a digit of radix R (R is 10 or 16)
IsRadixDigit(c, R) == \E i \in 1..R : LowerDigits[i] = c \/ UpperDigits[i] = c

DigitValue(c) ==
    (CHOOSE i \in 1..16 : LowerDigits[i] = c \/ UpperDigits[i] = c) - 1

\* the longest prefix of s made of digits of radix R
RECURSIVE DigitPrefix(_, _)
DigitPrefix(s, R) ==
    IF Len(s) > 0 /\ IsRadixDigit(s[1], R)
    THEN <<s[1]>> \o DigitPrefix(Tail(s), R)
    ELSE <<>>

\* the mathematical value of a non-empty digit string in radix R
RECURSIVE RadixValue(_, _)
RadixValue(z, R) ==
    IF Len(z) = 0 THEN 0
    ELSE RadixValue(SubSeq(z, 1, Len(z) - 1), R) * R + DigitValue(z[Len(z)])

NaN == [isNaN |-> TRUE, value |-> 0]

\* parseInt(s) with no radix argument (ECMAScript parseInt): leading white
\* space is skipped, a sign and a 0x prefix are read, then the longest run of
\* digits; whatever follows the digits is ignored; no digit gives NaN
parseInt(s) ==
    LET t    == trimStart(s)
        neg  == Len(t) > 0 /\ t[1] = "-"
        u    == IF Len(t) > 0 /\ t[1] \in {"+", "-"} THEN Tail(t) ELSE t
        hex  == Len(u) >= 2 /\ u[1] = "0" /\ u[2] \in {"x", "X"}
        R    == IF hex THEN 16 ELSE 10
        v    == IF hex THEN SubSeq(u, 3, Len(u)) ELSE u
        z    == DigitPrefix(v, R)
    IN  IF Len(z) = 0
        THEN NaN
        ELSE [isNaN |-> FALSE,
              value |-> IF neg THEN 0 - RadixValue(z, R) ELSE RadixValue(z, R)]

\* mutant of newSet: the list is not deduplicated
newSetKeepAll(pages) == pages

\* [...new Set(pages)]: the distinct elements in order of first occurrence
RECURSIVE newSet(_)
newSet(pages) ==
    IF Len(pages) = 0 THEN <<>>
    ELSE LET init == newSet(SubSeq(pages, 1, Len(pages) - 1))
             x    == pages[Len(pages)]
         IN  IF \E i \in 1..Len(init) : init[i] = x
             THEN init
             ELSE Append(init, x)

\* one element placed into an ascending list, after the elements equal to it
RECURSIVE insertSorted(_, _)
insertSorted(sorted, x) ==
    IF Len(sorted) = 0 THEN <<x>>
    ELSE IF sorted[Len(sorted)] <= x
         THEN Append(sorted, x)
         ELSE Append(insertSorted(SubSeq(sorted, 1, Len(sorted) - 1), x),
                     sorted[Len(sorted)])

\* mutant of sort: the comparator reversed, (a, b) => b - a
RECURSIVE sortDescending(_)
sortDescending(pages) ==
    IF Len(pages) = 0 THEN <<>>
    ELSE LET rest == sortDescending(SubSeq(pages, 1, Len(pages) - 1))
             x    == pages[Len(pages)]
             k    == Cardinality({i \in 1..Len(rest) : rest[i] >= x})
         IN  SubSeq(rest, 1, k) \o <<x>> \o SubSeq(rest, k + 1, Len(rest))

\* Array.prototype.sort((a, b) => a - b): ascending and stable
RECURSIVE sort(_)
sort(pages) ==
    IF Len(pages) = 0 THEN <<>>
    ELSE insertSorted(sort(SubSeq(pages, 1, Len(pages) - 1)), pages[Len(pages)])

(***************************************************************************)
(* parsePageRanges (SplitDocuments component).                             *)
(***************************************************************************)
\* the condition under which a start-end token is taken
rangeAccepted(start, end, total) ==
    /\ ~start.isNaN
    /\ ~end.isNaN
    /\ start.value > 0
    /\ end.value <= total
    /\ start.value <= end.value

\* mutant of pageAccepted: the upper bound is not tested
pageAcceptedNoUpperBound(page, total) ==
    /\ ~page.isNaN
    /\ page.value > 0

\* the condition under which a single-page token is taken
pageAccepted(page, total) ==
    /\ ~page.isNaN
    /\ page.value > 0
    /\ page.value <= total

\* mutant of pushRange: the loop stops before end (i < end)
pushRangeExclusive(pages, start, end) ==
    pages \o [i \in 1..(end - start) |-> start + i - 1]

\* for (let i = start; i <= end; i++) pages.push(i)
pushRange(pages, start, end) ==
    pages \o [i \in 1..(end - start + 1) |-> start + i - 1]

\* mutant of pushToken: an out-of-bounds token is clamped to 1..total, not
\* dropped
pushTokenClamped(pages, range, total) ==
    LET lo(n) == IF n < 1 THEN 1 ELSE n
        hi(n) == IF n > total THEN total ELSE n
    IN  IF includes(range, "-")
        THEN LET parts == split(range, "-")
                 start == parseInt(trim(parts[1]))
                 end   == parseInt(trim(parts[2]))
             IN  IF ~start.isNaN /\ ~end.isNaN /\ start.value <= end.value
                 THEN pages \o [i \in 1..(hi(end.value) - lo(start.value) + 1)
                                    |-> lo(start.value) + i - 1]
                 ELSE pages
        ELSE LET page == parseInt(range)
             IN  IF ~page.isNaN /\ total >= 1
                 THEN Append(pages, hi(lo(page.value)))
                 ELSE pages

\* the body of the loop over the trimmed tokens: what one token pushes
pushToken(pages, range, total) ==
    IF includes(range, "-")
    THEN LET parts == split(range, "-")
             nums  == [i \in 1..Len(parts) |-> parseInt(trim(parts[i]))]
             start == nums[1]
             end   == nums[2]
         IN  IF rangeAccepted(start, end, total)
             THEN pushRange(pages, start.value, end.value)
             ELSE pages
    ELSE LET page == parseInt(range)
         IN  IF pageAccepted(page, total)
             THEN Append(pages, page.value)
             ELSE pages

\* mutant of forOfRanges: the loop ends at the first token that is not taken
RECURSIVE forOfRangesStopAtInvalid(_, _, _)
forOfRangesStopAtInvalid(tokens, pages, total) ==
    IF Len(tokens) = 0 THEN pages
    ELSE LET next == pushToken(pages, tokens[1], total)
         IN  IF next = pages
             THEN pages
             ELSE forOfRangesStopAtInvalid(Tail(tokens), next, total)

\* for (const range of ranges) { ... }
RECURSIVE forOfRanges(_, _, _)
forOfRanges(tokens, pages, total) ==
    IF Len(tokens) = 0 THEN pages
    ELSE forOfRanges(Tail(tokens), pushToken(pages, tokens[1], total), total)

\* rangeStr.split(',').map(r => r.trim())
splitTokens(rangeStr) ==
    LET raw == split(rangeStr, ",")
    IN  [i \in 1..Len(raw) |-> trim(raw[i])]

\* mutant of parsePageRanges: an empty selection is read as every page
parsePageRangesAllWhenEmpty(rangeStr, total) ==
    LET pages == sort(newSet(forOfRanges(splitTokens(rangeStr), <<>>, total)))
    IN  IF Len(pages) = 0 THEN [i \in 1..total |-> i] ELSE pages

parsePageRanges(rangeStr, total) ==
    sort(newSet(forOfRanges(splitTokens(rangeStr), <<>>, total)))

(***************************************************************************)
(* createSplitDocuments, PDF branch (downloadUtils.ts).                    *)
(***************************************************************************)
\* mutant of groupPage: && for || in the test that starts a new range, so
\* that only the first page starts one
groupPageAnd(sortedPages, index, acc, docPages) ==
    LET page      == sortedPages[index]
        pageIndex == page - 1
    IN  IF pageIndex < 0 \/ pageIndex >= docPages
        THEN acc
        ELSE IF index = 1
             THEN [ranges |-> IF Len(acc.currentRange) > 0
                              THEN Append(acc.ranges, acc.currentRange)
                              ELSE acc.ranges,
                   currentRange |-> <<page>>]
             ELSE [ranges |-> acc.ranges,
                   currentRange |-> Append(acc.currentRange, page)]

\* mutant of groupPage: every page starts a new range
groupPageSingle(sortedPages, index, acc, docPages) ==
    LET page      == sortedPages[index]
        pageIndex == page - 1
    IN  IF pageIndex < 0 \/ pageIndex >= docPages
        THEN acc
        ELSE [ranges |-> IF Len(acc.currentRange) > 0
                         THEN Append(acc.ranges, acc.currentRange)
                         ELSE acc.ranges,
              currentRange |-> <<page>>]

\* mutant of groupPage: pages outside the document are not skipped
groupPageNoSkip(sortedPages, index, acc, docPages) ==
    LET page == sortedPages[index]
    IN  IF index = 1 \/ page # sortedPages[index - 1] + 1
        THEN [ranges |-> IF Len(acc.currentRange) > 0
                         THEN Append(acc.ranges, acc.currentRange)
                         ELSE acc.ranges,
              currentRange |-> <<page>>]
        ELSE [ranges |-> acc.ranges,
              currentRange |-> Append(acc.currentRange, page)]

\* one call of the forEach callback on sortedPages[index] (index is 1-based
\* here, 0-based in the source); acc is [ranges, currentRange]
groupPage(sortedPages, index, acc, docPages) ==
    LET page      == sortedPages[index]
        pageIndex == page - 1
    IN  IF pageIndex < 0 \/ pageIndex >= docPages
        THEN acc
        ELSE IF index = 1 \/ page # sortedPages[index - 1] + 1
             THEN [ranges |-> IF Len(acc.currentRange) > 0
                              THEN Append(acc.ranges, acc.currentRange)
                              ELSE acc.ranges,
                   currentRange |-> <<page>>]
             ELSE [ranges |-> acc.ranges,
                   currentRange |-> Append(acc.currentRange, page)]

\* sortedPages.forEach(...), calls index..Len(sortedPages)
RECURSIVE forEachPage(_, _, _, _)
forEachPage(sortedPages, index, acc, docPages) ==
    IF index > Len(sortedPages) THEN acc
    ELSE forEachPage(sortedPages, index + 1,
                     groupPage(sortedPages, index, acc, docPages), docPages)

\* mutant of buildRanges: the last range is not added
buildRangesWithoutLast(pages, docPages) ==
    forEachPage(sort(pages), 1,
                [ranges |-> <<>>, currentRange |-> <<>>], docPages).ranges

\* mutant of buildRanges: the last range is added even when it is empty
buildRangesEmptyLast(pages, docPages) ==
    LET acc == forEachPage(sort(pages), 1,
                           [ranges |-> <<>>, currentRange |-> <<>>], docPages)
    IN  Append(acc.ranges, acc.currentRange)

\* the ranges of consecutive pages built from pageNumbers
buildRanges(pages, docPages) ==
    LET sortedPages == sort(pages)
        acc == forEachPage(sortedPages, 1,
                           [ranges |-> <<>>, currentRange |-> <<>>], docPages)
    IN  IF Len(acc.currentRange) > 0
        THEN Append(acc.ranges, acc.currentRange)
        ELSE acc.ranges

\* mutant of splitDocument: the page numbers are used as 0-based indices
splitDocumentOneBased(range) ==
    [pages |-> [i \in 1..Len(range) |-> range[i] + 1]]

\* the document made for one range: the source pages at the 0-based indices
\* p - 1, a source page being named by its 1-based number
splitDocument(range) ==
    LET pageIndices == [i \in 1..Len(range) |-> range[i] - 1]
    IN  [pages |-> [i \in 1..Len(pageIndices) |-> pageIndices[i] + 1]]

(***************************************************************************)
(* The state machine: the parser and the grouping applied to an input.     *)
(***************************************************************************)
RECURSIVE joinTokens(_)
joinTokens(tokens) ==
    IF Len(tokens) = 0 THEN <<>>
    ELSE IF Len(tokens) = 1 THEN tokens[1]
    ELSE tokens[1] \o <<",">> \o joinTokens(Tail(tokens))

ShortStrings == UNION {[1..n -> Alphabet] : n \in 0..MaxLen}

TokenLists ==
    UNION {{joinTokens(ts) : ts \in [1..n -> ExampleTokens]} : n \in 1..MaxTokens}

Init ==
    /\ \/ splitRange \in ShortStrings /\ totalPages \in 0..MaxPages
       \/ splitRange \in TokenLists \cup ExampleSpecs
          /\ totalPages \in ExamplePageCounts
    /\ pageNumbers = <<>>
    /\ ranges = <<>>
    /\ splitFiles = <<>>
    /\ pc = "start"
    /\ UiIdle
    /\ CallIdle
    /\ CompressIdle
    /\ SelectIdle
    /\ MergeIdle
    /\ CfIdle

\* handleSplit: const pageNumbers = parsePageRanges(splitRange)
ParsePageRanges ==
    /\ pc = "start"
    /\ pageNumbers' = parsePageRanges(splitRange, totalPages)
    /\ pc' = "parsed"
    /\ UNCHANGED <<splitRange, totalPages, ranges, splitFiles>>
    /\ UNCHANGED <<uiVars, callVars, compressVars>>
    /\ UNCHANGED <<selectVars, mergeVars, cfVars>>

\* handleSplit: pageNumbers.length === 0, the "Invalid page range" toast
InvalidPageRange ==
    /\ pc = "parsed"
    /\ Len(pageNumbers) = 0
    /\ pc' = "invalid"
    /\ UNCHANGED <<splitRange, totalPages, pageNumbers, ranges, splitFiles>>
    /\ UNCHANGED <<uiVars, callVars, compressVars>>
    /\ UNCHANGED <<selectVars, mergeVars, cfVars>>

\* handleSplit: createSplitDocuments on the uploaded file, whose page count
\* is totalPages, then setSplitFiles(splitResults)
CreateSplitDocuments ==
    /\ pc = "parsed"
    /\ Len(pageNumbers) # 0
    /\ ranges' = buildRanges(pageNumbers, totalPages)
    /\ splitFiles' = [i \in 1..Len(ranges') |-> splitDocument(ranges'[i])]
    /\ pc' = "split"
    /\ UNCHANGED <<splitRange, totalPages, pageNumbers>>
    /\ UNCHANGED <<uiVars, callVars, compressVars>>
    /\ UNCHANGED <<selectVars, mergeVars, cfVars>>

Next ==
    \/ ParsePageRanges
    \/ InvalidPageRange
    \/ CreateSplitDocuments

Spec == Init /\ [][Next]_vars

(***************************************************************************)
(* Definitions the properties are stated with.                             *)
(***************************************************************************)
Elements(seq) == {seq[i] : i \in 1..Len(seq)}

StrictlyAscending(seq) ==
    \A i, j \in 1..Len(seq) : i < j => seq[i] < seq[j]

\* the comma-delimited tokens of the typed string, untrimmed
RawTokens == split(splitRange, ",")

\* the two endpoints of a hyphenated token as the parser reads them
TokenStart(tok) == parseInt(trim(split(tok, "-")[1]))
TokenEnd(tok) == parseInt(trim(split(tok, "-")[2]))

\* the pages of a token the parser takes: its page for a single-page token,
\* every integer from start to end for a range token
TokenPages(tok, total) ==
    IF includes(tok, "-")
    THEN IF rangeAccepted(TokenStart(tok), TokenEnd(tok), total)
         THEN TokenStart(tok).value .. TokenEnd(tok).value
         ELSE {}
    ELSE IF pageAccepted(parseInt(tok), total)
         THEN {parseInt(tok).value}
         ELSE {}

\* the pages of all the tokens of the typed string
SelectedPages ==
    UNION {TokenPages(trim(RawTokens[i]), totalPages) : i \in 1..Len(RawTokens)}

\* the pages one token pushes when the loop body runs on it alone
Pushed(tok) == pushToken(<<>>, tok, totalPages)

Parsed == pc # "start"

\* "1-3,5,7-9"
Example139 ==
    <<"1", "-", "3", ",", "5", ",", "7", "-", "9">>

(***************************************************************************)
(* C1: for every totalPages >= 1 and every page-spec string, the list      *)
(* returned by parsePageRanges is strictly ascending, so it contains no    *)
(* page number twice.                                                      *)
(***************************************************************************)
C1_StrictlyAscending ==
    (Parsed /\ totalPages >= 1) =>
        /\ StrictlyAscending(pageNumbers)
        /\ Cardinality(Elements(pageNumbers)) = Len(pageNumbers)

\* the tokens pushed a page twice and pushed pages out of order
C1_Witness ==
    /\ pc = "parsed"
    /\ totalPages >= 1
    /\ Len(pageNumbers) >= 2
    /\ LET pushed == forOfRanges(splitTokens(splitRange), <<>>, totalPages)
       IN  /\ Len(pushed) > Len(pageNumbers)
           /\ ~StrictlyAscending(newSet(pushed))

(***************************************************************************)
(* C2: for every page-spec string and every totalPages, every page number  *)
(* p in the result of parsePageRanges satisfies 1 <= p <= totalPages.      *)
(***************************************************************************)
C2_PagesInBounds ==
    Parsed =>
        \A i \in 1..Len(pageNumbers) :
            1 <= pageNumbers[i] /\ pageNumbers[i] <= totalPages

\* a page was returned although the string also names a page above totalPages
C2_Witness ==
    /\ pc = "parsed"
    /\ Len(pageNumbers) > 0
    /\ \E i \in 1..Len(RawTokens) :
           LET page == parseInt(trim(RawTokens[i]))
           IN  ~page.isNaN /\ page.value > totalPages

(***************************************************************************)
(* C3: the result of parsePageRanges is the sorted set union of the pages  *)
(* of the accepted tokens (a single-page token gives its page, a range     *)
(* token every integer from start to end);                                 *)
(* parse("1-3,5,7-9", 10) = [1,2,3,5,7,8,9].                               *)
(***************************************************************************)
C3_SortedUnion ==
    Parsed =>
        /\ Elements(pageNumbers) = SelectedPages
        /\ StrictlyAscending(pageNumbers)
        /\ (splitRange = Example139 /\ totalPages = 10) =>
               pageNumbers = <<1, 2, 3, 5, 7, 8, 9>>

C3_Witness ==
    /\ pc = "parsed"
    /\ splitRange = Example139
    /\ totalPages = 10
    /\ pageNumbers = <<1, 2, 3, 5, 7, 8, 9>>

(***************************************************************************)
(* The token grammar of the specification: an integer literal is a         *)
(* non-empty string of decimal digits.                                     *)
(***************************************************************************)
IsIntegerLiteral(s) ==
    Len(s) > 0 /\ \A i \in 1..Len(s) : IsRadixDigit(s[i], 10)

LiteralValue(s) == RadixValue(s, 10)

\* the trimmed tokens with no hyphen, and those with one
SingleTokens ==
    {t \in {trim(RawTokens[i]) : i \in 1..Len(RawTokens)} : ~includes(t, "-")}
HyphenTokens ==
    {t \in {trim(RawTokens[i]) : i \in 1..Len(RawTokens)} : includes(t, "-")}

\* tok is two integer literals separated by one hyphen
IsRangeLiteral(tok) ==
    LET parts == split(tok, "-")
    IN  /\ Len(parts) = 2
        /\ IsIntegerLiteral(trim(parts[1]))
        /\ IsIntegerLiteral(trim(parts[2]))

RangeLiteralStart(tok) == LiteralValue(trim(split(tok, "-")[1]))
RangeLiteralEnd(tok) == LiteralValue(trim(split(tok, "-")[2]))

(***************************************************************************)
(* C4: a token without a hyphen contributes page v if and only if the      *)
(* trimmed token is an integer literal of value v with                     *)
(* 1 <= v <= totalPages; every other hyphen-free token ("", "3x", "2.5",   *)
(* "0", a value above totalPages) contributes nothing.                     *)
(* The parser does not satisfy this: parseInt reads the leading digits of  *)
(* "3x" and "2.5" and the token is taken as page 3 and page 2.             *)
(***************************************************************************)
C4_SinglePageTokens ==
    Parsed =>
        \A t \in SingleTokens :
            Elements(Pushed(t)) =
                IF /\ IsIntegerLiteral(t)
                   /\ 1 <= LiteralValue(t)
                   /\ LiteralValue(t) <= totalPages
                THEN {LiteralValue(t)}
                ELSE {}

(***************************************************************************)
(* C5: a hyphenated token contributes pages if and only if it is two       *)
(* integer literals start and end separated by one hyphen with start > 0,  *)
(* end <= totalPages and start <= end, and then it contributes exactly     *)
(* start..end; "3-1", "-3", "3-" and "1-3-5" contribute nothing.           *)
(* The parser does not satisfy this: it reads the first two hyphen-        *)
(* separated parts with parseInt and ignores the rest, so "1-3-5" gives    *)
(* pages 1 to 3.                                                           *)
(***************************************************************************)
C5_RangeTokens ==
    Parsed =>
        \A t \in HyphenTokens :
            Elements(Pushed(t)) =
                IF /\ IsRangeLiteral(t)
                   /\ RangeLiteralStart(t) > 0
                   /\ RangeLiteralEnd(t) <= totalPages
                   /\ RangeLiteralStart(t) <= RangeLiteralEnd(t)
                THEN RangeLiteralStart(t) .. RangeLiteralEnd(t)
                ELSE {}

(***************************************************************************)
(* C6: out-of-bounds input is dropped, never clamped: a single page 0 or a *)
(* page above totalPages yields no page (parse("0,11", 10) = []), and a    *)
(* range token whose end exceeds totalPages or whose start is below 1      *)
(* contributes no page at all, not even its in-bounds part.                *)
(***************************************************************************)
\* a single-page token naming a page outside 1..totalPages
PageOutOfBounds(t) ==
    /\ ~includes(t, "-")
    /\ ~parseInt(t).isNaN
    /\ (parseInt(t).value < 1 \/ parseInt(t).value > totalPages)

\* a range token that starts below 1 or ends above totalPages
RangeOutOfBounds(t) ==
    /\ includes(t, "-")
    /\ ~TokenStart(t).isNaN
    /\ ~TokenEnd(t).isNaN
    /\ (TokenStart(t).value < 1 \/ TokenEnd(t).value > totalPages)

OutOfBounds(t) == PageOutOfBounds(t) \/ RangeOutOfBounds(t)

\* "0,11"
Example011 == <<"0", ",", "1", "1">>

C6_DroppedNotClamped ==
    Parsed =>
        /\ \A t \in SingleTokens \cup HyphenTokens :
               OutOfBounds(t) => Pushed(t) = <<>>
        /\ (\A t \in SingleTokens \cup HyphenTokens : OutOfBounds(t))
               => pageNumbers = <<>>
        /\ (splitRange = Example011 /\ totalPages = 10) => pageNumbers = <<>>

\* nothing is returned for a string with a range that starts in bounds and
\* ends above totalPages
C6_Witness ==
    /\ pc = "parsed"
    /\ pageNumbers = <<>>
    /\ totalPages >= 1
    /\ \E t \in HyphenTokens :
           /\ RangeOutOfBounds(t)
           /\ TokenStart(t).value >= 1
           /\ TokenStart(t).value <= totalPages

(***************************************************************************)
(* C7: white space around a token does not change the result: each token   *)
(* is trimmed before it is parsed, and a degenerate range start-start      *)
(* yields the single page start; parse("  2 , 4-4 ", 10) = [2,4].          *)
(***************************************************************************)
RECURSIVE StripLeft(_)
StripLeft(s) == IF Len(s) > 0 /\ s[1] = " " THEN StripLeft(Tail(s)) ELSE s

RECURSIVE StripRight(_)
StripRight(s) ==
    IF Len(s) > 0 /\ s[Len(s)] = " "
    THEN StripRight(SubSeq(s, 1, Len(s) - 1))
    ELSE s

\* the typed string with the blanks around every token taken away
Stripped ==
    joinTokens([i \in 1..Len(RawTokens) |-> StripRight(StripLeft(RawTokens[i]))])

\* "  2 , 4-4 "
Example244 == <<" ", " ", "2", " ", ",", " ", "4", "-", "4", " ">>

C7_WhitespaceTolerated ==
    Parsed =>
        /\ pageNumbers = parsePageRanges(Stripped, totalPages)
        /\ \A t \in HyphenTokens :
               (/\ IsRangeLiteral(t)
                /\ RangeLiteralStart(t) = RangeLiteralEnd(t)
                /\ RangeLiteralStart(t) >= 1
                /\ RangeLiteralStart(t) <= totalPages)
                   => Pushed(t) = <<RangeLiteralStart(t)>>
        /\ (splitRange = Example244 /\ totalPages = 10) => pageNumbers = <<2, 4>>

C7_Witness ==
    /\ pc = "parsed"
    /\ splitRange = Example244
    /\ totalPages = 10
    /\ pageNumbers = <<2, 4>>

(***************************************************************************)
(* C8: parsePageRanges returns the empty list whenever no token is         *)
(* accepted: for the empty string, for a string of only white space and    *)
(* commas, and for a string in which every token is invalid.               *)
(***************************************************************************)
OnlyBlanksAndCommas(s) == \A i \in 1..Len(s) : s[i] \in {" ", ","}

C8_EmptyWhenNothingAccepted ==
    Parsed =>
        /\ OnlyBlanksAndCommas(splitRange) => pageNumbers = <<>>
        /\ (SelectedPages = {}) => pageNumbers = <<>>

\* a string of blanks and commas was parsed for a document with pages
C8_Witness ==
    /\ pc = "invalid"
    /\ totalPages >= 1
    /\ OnlyBlanksAndCommas(splitRange)
    /\ includes(splitRange, ",")
    /\ includes(splitRange, " ")
    /\ pageNumbers = <<>>

(***************************************************************************)
(* C9: parsePageRanges never raises an error, and an invalid token never   *)
(* affects the other tokens: the result for a string with invalid tokens   *)
(* equals the result for the same string with those tokens removed.        *)
(***************************************************************************)
RECURSIVE KeepTaken(_)
KeepTaken(tokens) ==
    IF Len(tokens) = 0 THEN <<>>
    ELSE IF TokenPages(trim(tokens[1]), totalPages) = {}
         THEN KeepTaken(Tail(tokens))
         ELSE <<tokens[1]>> \o KeepTaken(Tail(tokens))

\* the typed string with the tokens the parser does not take removed
WithoutInvalid == joinTokens(KeepTaken(RawTokens))

C9_InvalidTokensIgnored ==
    Parsed =>
        /\ \A i \in 1..Len(pageNumbers) : pageNumbers[i] \in Nat
        /\ pageNumbers = parsePageRanges(WithoutInvalid, totalPages)

\* pages were returned for a string whose first token is invalid
C9_Witness ==
    /\ pc = "parsed"
    /\ Len(pageNumbers) > 0
    /\ TokenPages(trim(RawTokens[1]), totalPages) = {}
    /\ Len(trim(RawTokens[1])) > 0

(***************************************************************************)
(* C10: overlapping or repeated tokens are merged by set semantics before  *)
(* the grouping: a page covered by several tokens appears once in the      *)
(* selection and in one output document; "1-5,3-7" with totalPages >= 7    *)
(* yields [1,2,3,4,5,6,7] and a single document for pages 1 to 7.          *)
(***************************************************************************)
\* "1-5,3-7"
Example1537 == <<"1", "-", "5", ",", "3", "-", "7">>

Occurrences(seq, x) == Cardinality({i \in 1..Len(seq) : seq[i] = x})

C10_OverlapsMerged ==
    /\ Parsed =>
           \A p \in SelectedPages : Occurrences(pageNumbers, p) = 1
    /\ pc = "split" =>
           /\ \A p \in SelectedPages :
                  /\ Cardinality({i \in 1..Len(splitFiles) :
                         p \in Elements(splitFiles[i].pages)}) = 1
                  /\ \A i \in 1..Len(splitFiles) :
                         Occurrences(splitFiles[i].pages, p) <= 1
           /\ (splitRange = Example1537 /\ totalPages >= 7) =>
                  /\ pageNumbers = <<1, 2, 3, 4, 5, 6, 7>>
                  /\ Len(splitFiles) = 1
                  /\ splitFiles[1].pages = <<1, 2, 3, 4, 5, 6, 7>>

C10_Witness ==
    /\ pc = "split"
    /\ splitRange = Example1537
    /\ totalPages >= 7
    /\ Len(splitFiles) = 1
    /\ splitFiles[1].pages = <<1, 2, 3, 4, 5, 6, 7>>

(***************************************************************************)
(* createSplitDocuments as a process: the file is loaded, the ranges are   *)
(* built, one document is made for each range (Promise.all over the        *)
(* ranges, the documents being finished in any order), and the promise is  *)
(* resolved with the list of documents or rejected.                        *)
(***************************************************************************)
\* the largest page of a NormalizedSelection given to createSplitDocuments
MaxSelPage == 9
\* the longest list of arbitrary page numbers given to createSplitDocuments
MaxListLen == 3
\* the largest page count of the file split with such a list
MaxListDoc == 2

\* "a.pdf"
FileName == <<"a", ".", "p", "d", "f">>

PdfFile(n) == [name |-> FileName, pages |-> n]

\* "{n}"
Placeholder == <<"{", "n", "}">>

\* "part{n}", "{n}_{n}" and "part", a pattern without the placeholder
NamingPatterns ==
    { <<"p", "a", "r", "t", "{", "n", "}">>,
      <<"{", "n", "}", "_", "{", "n", "}">>,
      <<"p", "a", "r", "t">> }

\* Number.prototype.toString for an integer
RECURSIVE toString(_)
toString(n) ==
    IF n < 0 THEN <<"-">> \o toString(0 - n)
    ELSE IF n < 10 THEN <<LowerDigits[n + 1]>>
    ELSE toString(n \div 10) \o <<LowerDigits[(n % 10) + 1]>>

\* String.prototype.replace with a search string: the first occurrence only
replace(s, search, replacement) ==
    LET found == {i \in 1..(Len(s) - Len(search) + 1) :
                      SubSeq(s, i, i + Len(search) - 1) = search}
    IN  IF found = {} THEN s
        ELSE LET i == CHOOSE k \in found : \A j \in found : k <= j
             IN  SubSeq(s, 1, i - 1) \o replacement
                     \o SubSeq(s, i + Len(search), Len(s))

\* mutant of fileName: a range is always named by its first page
fileNameFirstPage(range, pattern) ==
    replace(pattern, Placeholder, toString(range[1]))

\* the file name of the document of a range, without the suffix
fileName(range, pattern) ==
    IF Len(range) = 1
    THEN replace(pattern, Placeholder, toString(range[1]))
    ELSE replace(pattern, Placeholder,
                 toString(range[1]) \o <<"-">> \o toString(range[Len(range)]))

\* the { name, content } made for one range; the content is the list of the
\* source pages copied into the new document
rangeDocument(range, pattern) ==
    [name  |-> fileName(range, pattern) \o <<".", "p", "d", "f">>,
     pages |-> splitDocument(range).pages]

\* mutant of promiseAll: the documents in the order they were finished
promiseAllInCompletionOrder(values, order) ==
    [k \in 1..Len(order) |-> values[order[k]]]

\* the value Promise.all resolves with: the values in the order of the
\* promises, whatever order they were fulfilled in
promiseAll(values, order) == values

\* the ascending lists of the subsets of 1..n
RECURSIVE AscendingLists(_)
AscendingLists(n) ==
    IF n = 0 THEN {<<>>}
    ELSE LET shorter == AscendingLists(n - 1)
         IN  shorter \cup {Append(l, n) : l \in shorter}

\* every list of at most MaxListLen page numbers from 0 to n + 1
ArbitraryLists(n) == UNION {[1..k -> 0..(n + 1)] : k \in 0..MaxListLen}

\* a call of createSplitDocuments on a PDF file by any caller
InitDirect ==
    /\ \/ originalFile = PdfFile(MaxSelPage)
          /\ pageNumbers \in AscendingLists(MaxSelPage)
       \/ \E n \in 0..MaxListDoc :
              originalFile = PdfFile(n) /\ pageNumbers \in ArbitraryLists(n)
    /\ namingPattern \in NamingPatterns
    /\ csd = "called"
    /\ promise = "pending"
    /\ extracted = <<>>
    /\ completed = <<>>
    /\ returned = <<>>
    /\ error = <<>>
    /\ ranges = <<>>
    /\ pc = "direct"
    /\ splitRange = <<>>
    /\ totalPages = 0
    /\ splitFiles = <<>>
    /\ UiIdle
    /\ CompressIdle
    /\ SelectIdle
    /\ MergeIdle
    /\ CfIdle

\* the SplitDocuments component with a PDF uploaded: handleFileSelect has
\* set totalPages and uploadedFile from the same file
InitComponent ==
    /\ \E n \in ExamplePageCounts :
           uploadedFile = PdfFile(n) /\ totalPages = n
    /\ isProcessing = FALSE
    /\ toast = "none"
    /\ splitRange = <<>>
    /\ splitFiles = <<>>
    /\ pageNumbers = <<>>
    /\ ranges = <<>>
    /\ pc = "idle"
    /\ CallIdle
    /\ CompressIdle
    /\ SelectIdle
    /\ MergeIdle
    /\ CfIdle

InitSplit == InitDirect \/ InitComponent

\* PDFDocument.load succeeds; the ranges are built and the extraction of
\* every range is started
CsdLoad ==
    /\ csd = "called"
    /\ LET built == buildRanges(pageNumbers, originalFile.pages)
       IN  /\ ranges' = built
           /\ extracted' = [i \in 1..Len(built) |-> Pending]
    /\ csd' = "extracting"
    /\ UNCHANGED <<splitRange, totalPages, pageNumbers, splitFiles, pc>>
    /\ UNCHANGED <<originalFile, namingPattern, completed, promise, returned,
                   error>>
    /\ UNCHANGED <<uiVars, compressVars>>
    /\ UNCHANGED <<selectVars, mergeVars, cfVars>>

\* reading or loading the file throws: the catch block rethrows
CsdLoadFails ==
    /\ csd = "called"
    /\ promise' = "rejected"
    /\ error' = <<"Failed to split PDF file: ", "load">>
    /\ csd' = "done"
    /\ UNCHANGED <<parseVars, uiVars, compressVars>>
    /\ UNCHANGED <<originalFile, namingPattern, extracted, completed, returned>>
    /\ UNCHANGED <<selectVars, mergeVars, cfVars>>

\* the document of range i is finished
CsdExtract(i) ==
    /\ csd = "extracting"
    /\ extracted[i] = Pending
    /\ extracted' =
           [extracted EXCEPT ![i] = rangeDocument(ranges[i], namingPattern)]
    /\ completed' = Append(completed, i)
    /\ UNCHANGED <<parseVars, uiVars, compressVars>>
    /\ UNCHANGED <<originalFile, namingPattern, csd, promise, returned, error>>
    /\ UNCHANGED <<selectVars, mergeVars, cfVars>>

\* copying or saving the pages of range i throws: Promise.all rejects and
\* the catch block rethrows
CsdExtractFails(i) ==
    /\ csd = "extracting"
    /\ extracted[i] = Pending
    /\ promise' = "rejected"
    /\ error' = <<"Failed to split PDF file: ", "extract">>
    /\ csd' = "done"
    /\ UNCHANGED <<parseVars, uiVars, compressVars>>
    /\ UNCHANGED <<originalFile, namingPattern, extracted, completed, returned>>
    /\ UNCHANGED <<selectVars, mergeVars, cfVars>>

\* every document is finished: return splitFiles
CsdResolve ==
    /\ csd = "extracting"
    /\ \A i \in 1..Len(extracted) : extracted[i] # Pending
    /\ returned' = promiseAll(extracted, completed)
    /\ promise' = "fulfilled"
    /\ csd' = "done"
    /\ UNCHANGED <<parseVars, uiVars, compressVars>>
    /\ UNCHANGED <<originalFile, namingPattern, extracted, completed, error>>
    /\ UNCHANGED <<selectVars, mergeVars, cfVars>>

CreateSplitDocumentsStep ==
    \/ CsdLoad
    \/ CsdLoadFails
    \/ \E i \in 1..Len(extracted) : CsdExtract(i)
    \/ \E i \in 1..Len(extracted) : CsdExtractFails(i)
    \/ CsdResolve

(***************************************************************************)
(* handleSplit and the page range input of the SplitDocuments component.   *)
(***************************************************************************)
\* what the user types into the page range input
TypedSpecs == ExampleSpecs \cup {<<>>, <<"x">>}

\* `${baseName}_part{n}` with baseName = uploadedFile.name.replace('.pdf', '')
splitNamingPattern(file) ==
    replace(file.name, <<".", "p", "d", "f">>, <<>>)
        \o <<"_", "p", "a", "r", "t", "{", "n", "}">>

\* the Start Split button is enabled
StartSplitEnabled == ~(isProcessing \/ Len(trim(splitRange)) = 0)

\* onChange of the page range input
SetSplitRange ==
    /\ pc \in {"idle", "awaiting"}
    /\ uploadedFile # NoFile
    /\ \E s \in TypedSpecs : s # splitRange /\ splitRange' = s
    /\ UNCHANGED <<totalPages, pageNumbers, ranges, splitFiles, pc>>
    /\ UNCHANGED <<uiVars, callVars, compressVars>>
    /\ UNCHANGED <<selectVars, mergeVars, cfVars>>

\* the call of createSplitDocuments is over
CallReset ==
    /\ originalFile' = NoFile
    /\ namingPattern' = <<>>
    /\ csd' = "idle"
    /\ extracted' = <<>>
    /\ completed' = <<>>
    /\ promise' = "none"
    /\ returned' = <<>>
    /\ error' = <<>>

\* mutant of HandleSplit: isProcessing is set before the page spec is checked
HandleSplitProcessingFirst ==
    /\ pc = "idle"
    /\ StartSplitEnabled
    /\ uploadedFile # NoFile
    /\ isProcessing' = TRUE
    /\ IF Len(parsePageRanges(splitRange, totalPages)) = 0
       THEN /\ toast' = "Invalid page range"
            /\ UNCHANGED <<parseVars, uploadedFile, callVars>>
       ELSE /\ pageNumbers' = parsePageRanges(splitRange, totalPages)
            /\ pc' = "awaiting"
            /\ originalFile' = uploadedFile
            /\ namingPattern' = splitNamingPattern(uploadedFile)
            /\ csd' = "called"
            /\ promise' = "pending"
            /\ UNCHANGED <<splitRange, totalPages, ranges, splitFiles>>
            /\ UNCHANGED <<uploadedFile, toast>>
            /\ UNCHANGED <<extracted, completed, returned, error>>
    /\ UNCHANGED compressVars
    /\ UNCHANGED <<selectVars, mergeVars, cfVars>>

\* a click on Start Split: handleSplit up to its await
HandleSplit ==
    /\ pc = "idle"
    /\ StartSplitEnabled
    /\ uploadedFile # NoFile
    /\ IF Len(parsePageRanges(splitRange, totalPages)) = 0
       THEN /\ toast' = "Invalid page range"
            /\ UNCHANGED <<parseVars, uploadedFile, isProcessing, callVars>>
       ELSE /\ pageNumbers' = parsePageRanges(splitRange, totalPages)
            /\ isProcessing' = TRUE
            /\ pc' = "awaiting"
            /\ originalFile' = uploadedFile
            /\ namingPattern' = splitNamingPattern(uploadedFile)
            /\ csd' = "called"
            /\ promise' = "pending"
            /\ UNCHANGED <<splitRange, totalPages, ranges, splitFiles>>
            /\ UNCHANGED <<uploadedFile, toast>>
            /\ UNCHANGED <<extracted, completed, returned, error>>
    /\ UNCHANGED compressVars
    /\ UNCHANGED <<selectVars, mergeVars, cfVars>>

\* handleSplit after the await, createSplitDocuments having resolved
HandleSplitResolved ==
    /\ pc = "awaiting"
    /\ promise = "fulfilled"
    /\ splitFiles' = returned
    /\ toast' = "Split complete"
    /\ isProcessing' = FALSE
    /\ pc' = "idle"
    /\ pageNumbers' = <<>>
    /\ ranges' = <<>>
    /\ CallReset
    /\ UNCHANGED <<splitRange, totalPages, uploadedFile, compressVars>>
    /\ UNCHANGED <<selectVars, mergeVars, cfVars>>

\* mutant of HandleSplitRejected: the results shown are cleared
HandleSplitRejectedClears ==
    /\ pc = "awaiting"
    /\ promise = "rejected"
    /\ splitFiles' = <<>>
    /\ toast' = "Split failed"
    /\ isProcessing' = FALSE
    /\ pc' = "idle"
    /\ pageNumbers' = <<>>
    /\ ranges' = <<>>
    /\ CallReset
    /\ UNCHANGED <<splitRange, totalPages, uploadedFile, compressVars>>
    /\ UNCHANGED <<selectVars, mergeVars, cfVars>>

\* mutant of HandleSplitRejected: without the finally block
HandleSplitRejectedNoFinally ==
    /\ pc = "awaiting"
    /\ promise = "rejected"
    /\ toast' = "Split failed"
    /\ pc' = "idle"
    /\ pageNumbers' = <<>>
    /\ ranges' = <<>>
    /\ CallReset
    /\ UNCHANGED <<splitRange, totalPages, splitFiles, uploadedFile>>
    /\ UNCHANGED <<isProcessing, compressVars>>
    /\ UNCHANGED <<selectVars, mergeVars, cfVars>>

\* handleSplit after the await, createSplitDocuments having rejected
HandleSplitRejected ==
    /\ pc = "awaiting"
    /\ promise = "rejected"
    /\ toast' = "Split failed"
    /\ isProcessing' = FALSE
    /\ pc' = "idle"
    /\ pageNumbers' = <<>>
    /\ ranges' = <<>>
    /\ CallReset
    /\ UNCHANGED <<splitRange, totalPages, splitFiles, uploadedFile>>
    /\ UNCHANGED compressVars
    /\ UNCHANGED <<selectVars, mergeVars, cfVars>>

NextSplit ==
    \/ SetSplitRange
    \/ HandleSplit
    \/ CreateSplitDocumentsStep
    \/ HandleSplitResolved
    \/ HandleSplitRejected

SplitSpec == InitSplit /\ [][NextSplit]_vars

(***************************************************************************)
(* Definitions the properties of createSplitDocuments are stated with.     *)
(***************************************************************************)
\* the list given to createSplitDocuments is a NormalizedSelection of the
\* file: strictly ascending pages of the file
Normalized ==
    /\ StrictlyAscending(pageNumbers)
    /\ \A i \in 1..Len(pageNumbers) :
           1 <= pageNumbers[i] /\ pageNumbers[i] <= originalFile.pages

\* createSplitDocuments has loaded the file and built its ranges
Built ==
    \/ csd = "extracting"
    \/ csd = "done" /\ promise = "fulfilled"
    \/ csd = "done" /\ promise = "rejected" /\ Len(extracted) = Len(ranges)
                    /\ Len(ranges) > 0

First(range) == range[1]
Last(range) == range[Len(range)]

\* a range written out again as every integer from its start to its end
Expand(range) ==
    [i \in 1..(Last(range) - First(range) + 1) |-> First(range) + i - 1]

RECURSIVE Flatten(_)
Flatten(rs) == IF Len(rs) = 0 THEN <<>> ELSE rs[1] \o Flatten(Tail(rs))

\* the pages of the selection that start a run of consecutive pages
RunStarts ==
    {p \in Elements(pageNumbers) : (p - 1) \notin Elements(pageNumbers)}

\* [1,2,3,5,7,8,9]
Selection139 == <<1, 2, 3, 5, 7, 8, 9>>

(***************************************************************************)
(* C11: for every NormalizedSelection given to createSplitDocuments the    *)
(* ranges partition the selection: every selected page is in exactly one   *)
(* range, no other page is in a range, and the ranges are ascending and    *)
(* do not overlap.                                                         *)
(***************************************************************************)
C11_RangesPartition ==
    (Built /\ Normalized) =>
        /\ \A p \in Elements(pageNumbers) :
               Cardinality({i \in 1..Len(ranges) :
                                p \in Elements(ranges[i])}) = 1
        /\ \A i \in 1..Len(ranges) :
               /\ Len(ranges[i]) > 0
               /\ StrictlyAscending(ranges[i])
               /\ Elements(ranges[i]) \subseteq Elements(pageNumbers)
        /\ \A i, j \in 1..Len(ranges) :
               i < j => Last(ranges[i]) < First(ranges[j])

C11_Witness ==
    /\ Built
    /\ Normalized
    /\ Len(ranges) >= 3
    /\ \E i \in 1..Len(ranges) : Len(ranges[i]) >= 2
    /\ \E i \in 1..Len(ranges) : Len(ranges[i]) = 1

(***************************************************************************)
(* C12: the ranges built from a NormalizedSelection are the maximal runs   *)
(* of consecutive integers: in a range each page is the previous page plus *)
(* one, and the start of the next range is greater than the end of the     *)
(* previous range plus one; [1,2,3,5,7,8,9] gives (1,3),(5,5),(7,9).       *)
(***************************************************************************)
C12_MaximalRuns ==
    (Built /\ Normalized) =>
        /\ \A i \in 1..Len(ranges) :
               \A k \in 2..Len(ranges[i]) :
                   ranges[i][k] = ranges[i][k - 1] + 1
        /\ \A i \in 2..Len(ranges) :
               First(ranges[i]) > Last(ranges[i - 1]) + 1
        /\ pageNumbers = Selection139 =>
               ranges = <<<<1, 2, 3>>, <<5>>, <<7, 8, 9>>>>

C12_Witness ==
    /\ Built
    /\ pageNumbers = Selection139
    /\ ranges = <<<<1, 2, 3>>, <<5>>, <<7, 8, 9>>>>

(***************************************************************************)
(* C13: the grouping is total over every NormalizedSelection: it finishes  *)
(* without an error, and for the empty selection it yields no range and    *)
(* therefore no output document.                                           *)
(***************************************************************************)
C13_GroupingTotal ==
    /\ (Built /\ Normalized) =>
           /\ Len(extracted) = Len(ranges)
           /\ Len(Flatten(ranges)) = Len(pageNumbers)
           /\ \A i \in 1..Len(ranges) : Len(ranges[i]) > 0
    /\ (Built /\ pageNumbers = <<>>) =>
           /\ ranges = <<>>
           /\ promise = "fulfilled" => returned = <<>>

C13_Witness ==
    /\ csd = "done"
    /\ promise = "fulfilled"
    /\ pageNumbers = <<>>
    /\ ranges = <<>>
    /\ returned = <<>>

(***************************************************************************)
(* C14: the grouping is idempotent through re-expansion: the ranges of a   *)
(* NormalizedSelection, written out as the flat list of the integers from  *)
(* each start to each end and grouped again, give the same ranges.         *)
(***************************************************************************)
C14_Idempotent ==
    (Built /\ Normalized) =>
        buildRanges(Flatten([i \in 1..Len(ranges) |-> Expand(ranges[i])]),
                    originalFile.pages) = ranges

C14_Witness ==
    /\ Built
    /\ Normalized
    /\ Len(ranges) >= 2
    /\ \E i \in 1..Len(ranges) : Len(ranges[i]) >= 2
    /\ buildRanges(Flatten([i \in 1..Len(ranges) |-> Expand(ranges[i])]),
                   originalFile.pages) = ranges

\* createSplitDocuments has returned its list of documents
Succeeded == csd = "done" /\ promise = "fulfilled"

Pdf == <<".", "p", "d", "f">>

\* the decimal numeral of a page number, found by reading numerals back
DecimalDigits == {LowerDigits[i] : i \in 1..10}
Numerals == UNION {[1..k -> DecimalDigits] : k \in 1..2}
Decimal(n) ==
    CHOOSE s \in Numerals :
        /\ RadixValue(s, 10) = n
        /\ (Len(s) = 1 \/ s[1] # "0")

\* the page number of a one-page range, "start-end" of a longer one
Label(range) ==
    IF Len(range) = 1
    THEN Decimal(First(range))
    ELSE Decimal(First(range)) \o <<"-">> \o Decimal(Last(range))

\* name is pattern with one occurrence of {n} replaced by the label of the
\* range, followed by ".pdf"
NamedBy(name, pattern, range) ==
    \E k \in 1..Len(pattern) :
        /\ k + 2 <= Len(pattern)
        /\ SubSeq(pattern, k, k + 2) = Placeholder
        /\ name = SubSeq(pattern, 1, k - 1) \o Label(range)
                     \o SubSeq(pattern, k + 3, Len(pattern)) \o Pdf

HasPlaceholder(pattern) ==
    \E k \in 1..Len(pattern) :
        k + 2 <= Len(pattern) /\ SubSeq(pattern, k, k + 2) = Placeholder

PartN == <<"p", "a", "r", "t", "{", "n", "}">>

(***************************************************************************)
(* C15: for a PDF source a successful createSplitDocuments returns exactly *)
(* one document per range, as many as the selection has maximal runs of    *)
(* consecutive pages, and the document of a range holds exactly the pages  *)
(* of that range in ascending order (a page of a document is named by its  *)
(* 1-based number in the source).                                          *)
(***************************************************************************)
C15_OneDocumentPerRange ==
    Succeeded =>
        /\ Len(returned) = Len(ranges)
        /\ Normalized => Len(returned) = Cardinality(RunStarts)
        /\ \A i \in 1..Len(returned) :
               /\ Len(returned[i].pages) = Len(ranges[i])
               /\ \A k \in 1..Len(ranges[i]) :
                      returned[i].pages[k] = ranges[i][k]
               /\ Normalized => StrictlyAscending(returned[i].pages)

C15_Witness ==
    /\ Succeeded
    /\ Normalized
    /\ Len(returned) >= 2
    /\ \E i \in 1..Len(returned) : Len(returned[i].pages) >= 2

(***************************************************************************)
(* C16: the ranges are extracted concurrently, and in whatever order the   *)
(* extractions finish the returned list holds the document of the i-th     *)
(* range at position i.                                                    *)
(***************************************************************************)
C16_RangeOrderKept ==
    Succeeded =>
        \A i \in 1..Len(ranges) :
            /\ returned[i] = extracted[i]
            /\ returned[i].pages = ranges[i]
            /\ \A j \in 1..Len(ranges) :
                   (Normalized /\ i < j) =>
                       returned[i].pages[1] < returned[j].pages[1]

C16_Witness ==
    /\ Succeeded
    /\ Normalized
    /\ Len(ranges) = 3
    /\ completed = <<3, 1, 2>>
    /\ \A i \in 1..3 : returned[i].pages[1] = ranges[i][1]

(***************************************************************************)
(* C17: the name of a document is the naming pattern with its placeholder  *)
(* {n} replaced by the page number of a one-page range and by "start-end"  *)
(* of a longer range, followed by ".pdf": "part{n}" gives "part5.pdf" for  *)
(* (5,5) and "part7-9.pdf" for (7,9); and two different ranges of one      *)
(* split never get the same name.                                          *)
(***************************************************************************)
C17_DocumentNames ==
    (Succeeded /\ HasPlaceholder(namingPattern)) =>
        /\ \A i \in 1..Len(returned) :
               /\ NamedBy(returned[i].name, namingPattern, ranges[i])
               /\ (namingPattern = PartN /\ ranges[i] = <<5>>) =>
                      returned[i].name = <<"p", "a", "r", "t", "5">> \o Pdf
               /\ (namingPattern = PartN /\ ranges[i] = <<7, 8, 9>>) =>
                      returned[i].name =
                          <<"p", "a", "r", "t", "7", "-", "9">> \o Pdf
        /\ \A i, j \in 1..Len(returned) :
               ((i # j /\ Normalized) \/ ranges[i] # ranges[j]) =>
                   returned[i].name # returned[j].name

C17_Witness ==
    /\ Succeeded
    /\ namingPattern = PartN
    /\ pageNumbers = Selection139
    /\ returned[2].name = <<"p", "a", "r", "t", "5">> \o Pdf
    /\ returned[3].name = <<"p", "a", "r", "t", "7", "-", "9">> \o Pdf

(***************************************************************************)
(* C18: when the page specification parses to an empty selection,          *)
(* handleSplit reports "Invalid page range" and stops: createSplitDocuments*)
(* is not called, isProcessing stays false, and splitFiles, uploadedFile,  *)
(* totalPages and splitRange are left as they were.                        *)
(***************************************************************************)
C18_InvalidRangeStops ==
    [][(/\ pc = "idle"
        /\ Len(parsePageRanges(splitRange, totalPages)) = 0
        /\ splitRange' = splitRange)
       => (/\ toast' = "Invalid page range"
           /\ csd' = "idle"
           /\ promise' = promise
           /\ pc' = "idle"
           /\ isProcessing = FALSE
           /\ isProcessing' = FALSE
           /\ UNCHANGED <<splitFiles, uploadedFile, totalPages, splitRange>>)
      ]_vars

C18_Witness ==
    /\ pc = "idle"
    /\ toast = "Invalid page range"
    /\ Len(trim(splitRange)) > 0
    /\ Len(parsePageRanges(splitRange, totalPages)) = 0
    /\ csd = "idle"
    /\ ~isProcessing
    /\ Len(splitFiles) > 0

C19_PartialWitness ==
    /\ promise = "rejected"
    /\ Len(completed) > 0
    /\ returned = <<>>

(***************************************************************************)
(* createProcessedDocument on a PDF file.  Only the sizes of the byte      *)
(* arrays matter: byteLength is arrayBuffer.byteLength, compressedPdfBytes *)
(* is compressedPdfBytes.length, and what PDFDocument.save returns is any  *)
(* size, or an exception.  saves records the attempts made.  NoLevel is    *)
(* the value undefined of the optional parameter.                          *)
(***************************************************************************)
\* the largest arrayBuffer.byteLength
MaxSize == 3

\* String.prototype.toLowerCase on the letters of the file names used
toLowerCase(s) ==
    [i \in 1..Len(s) |->
        CASE s[i] = "P" -> "p"
          [] s[i] = "D" -> "d"
          [] s[i] = "F" -> "f"
          [] OTHER      -> s[i]]

\* originalFile.name.split('.').pop()?.toLowerCase()
fileExtension(file) ==
    LET parts == split(file.name, ".")
    IN  toLowerCase(parts[Len(parts)])

\* "a.pdf" and "a.PDF"
PdfFileNames == { FileName, <<"a", ".", "P", "D", "F">> }

\* "" and undefined are falsy
CompressionLevels == {"light", "medium", "high", "", NoLevel}
Falsy(level) == level \in {"", NoLevel}

\* the four saves in the order of the code
SaveOrder ==
    <<"direct save", "re-copied save", "maximum compression",
      "image downsampling">>

\* new Blob([arrayBuffer], { type: fileType })
originalBlob == [bytes |-> "original", size |-> byteLength, type |-> "fileType"]

\* mutant of returnBlob: the last output is returned without the final test
returnBlobUnchecked ==
    [bytes |-> saves[Len(saves)].attempt, size |-> compressedPdfBytes,
     type |-> "application/pdf"]

\* the final test and the blob returned after the attempts
returnBlob ==
    IF compressedPdfBytes >= byteLength
    THEN originalBlob
    ELSE [bytes |-> saves[Len(saves)].attempt, size |-> compressedPdfBytes,
          type |-> "application/pdf"]

\* mutant of anotherAttempt: the next save is always made
anotherAttemptAlways == Len(saves) < Len(SaveOrder)

\* the first save is always made, the next ones when the last output is not
\* smaller than the original
anotherAttempt ==
    /\ Len(saves) < Len(SaveOrder)
    /\ (Len(saves) = 0 \/ compressedPdfBytes >= byteLength)

\* a call of createProcessedDocument on a PDF file
InitCompress ==
    /\ \E name \in PdfFileNames : originalFile = [name |-> name, pages |-> 1]
    /\ byteLength \in 0..MaxSize
    /\ compressionLevel \in CompressionLevels
    /\ cpd = "called"
    /\ compressedPdfBytes = 0
    /\ saves = <<>>
    /\ blob = [bytes |-> "none", size |-> 0, type |-> "none"]
    /\ namingPattern = <<>>
    /\ csd = "idle"
    /\ extracted = <<>>
    /\ completed = <<>>
    /\ promise = "none"
    /\ returned = <<>>
    /\ error = <<>>
    /\ UiIdle
    /\ splitRange = <<>>
    /\ totalPages = 0
    /\ pageNumbers = <<>>
    /\ ranges = <<>>
    /\ splitFiles = <<>>
    /\ pc = "compress"
    /\ SelectIdle
    /\ MergeIdle
    /\ CfIdle

\* originalFile.arrayBuffer() resolves
CpdRead ==
    /\ cpd = "called"
    /\ cpd' = "read"
    /\ UNCHANGED <<parseVars, uiVars, callVars>>
    /\ UNCHANGED <<compressionLevel, byteLength, compressedPdfBytes, saves, blob>>
    /\ UNCHANGED <<selectVars, mergeVars, cfVars>>

\* originalFile.arrayBuffer() rejects, outside of any try: the call rejects
CpdReadFails ==
    /\ cpd = "called"
    /\ cpd' = "rejected"
    /\ UNCHANGED <<parseVars, uiVars, callVars>>
    /\ UNCHANGED <<compressionLevel, byteLength, compressedPdfBytes, saves, blob>>
    /\ UNCHANGED <<selectVars, mergeVars, cfVars>>

\* no compression level: the original content is returned
CpdNoLevel ==
    /\ cpd = "read"
    /\ Falsy(compressionLevel)
    /\ blob' = originalBlob
    /\ cpd' = "done"
    /\ UNCHANGED <<parseVars, uiVars, callVars>>
    /\ UNCHANGED <<compressionLevel, byteLength, compressedPdfBytes, saves>>
    /\ UNCHANGED <<selectVars, mergeVars, cfVars>>

\* PDFDocument.load returns
CpdLoad ==
    /\ cpd = "read"
    /\ ~Falsy(compressionLevel)
    /\ fileExtension(originalFile) = <<"p", "d", "f">>
    /\ cpd' = "loaded"
    /\ UNCHANGED <<parseVars, uiVars, callVars>>
    /\ UNCHANGED <<compressionLevel, byteLength, compressedPdfBytes, saves, blob>>
    /\ UNCHANGED <<selectVars, mergeVars, cfVars>>

\* mutant of CpdLoadThrows: the exception is not caught
CpdLoadThrowsUncaught ==
    /\ cpd = "read"
    /\ ~Falsy(compressionLevel)
    /\ fileExtension(originalFile) = <<"p", "d", "f">>
    /\ cpd' = "rejected"
    /\ UNCHANGED <<parseVars, uiVars, callVars>>
    /\ UNCHANGED <<compressionLevel, byteLength, compressedPdfBytes, saves, blob>>
    /\ UNCHANGED <<selectVars, mergeVars, cfVars>>

\* PDFDocument.load throws: the catch returns the original content
CpdLoadThrows ==
    /\ cpd = "read"
    /\ ~Falsy(compressionLevel)
    /\ fileExtension(originalFile) = <<"p", "d", "f">>
    /\ blob' = originalBlob
    /\ cpd' = "done"
    /\ UNCHANGED <<parseVars, uiVars, callVars>>
    /\ UNCHANGED <<compressionLevel, byteLength, compressedPdfBytes, saves>>
    /\ UNCHANGED <<selectVars, mergeVars, cfVars>>

\* the next save returns n bytes
CpdSave(n) ==
    /\ cpd = "loaded"
    /\ anotherAttempt
    /\ compressedPdfBytes' = n
    /\ saves' = Append(saves, [attempt |-> SaveOrder[Len(saves) + 1],
                               threw |-> FALSE, size |-> n])
    /\ UNCHANGED <<parseVars, uiVars, callVars>>
    /\ UNCHANGED <<compressionLevel, byteLength, blob, cpd>>
    /\ UNCHANGED <<selectVars, mergeVars, cfVars>>

\* the next save, or the copy of the pages before it, throws: the catch
\* returns the original content
CpdSaveThrows ==
    /\ cpd = "loaded"
    /\ anotherAttempt
    /\ saves' = Append(saves, [attempt |-> SaveOrder[Len(saves) + 1],
                               threw |-> TRUE, size |-> 0])
    /\ blob' = originalBlob
    /\ cpd' = "done"
    /\ UNCHANGED <<parseVars, uiVars, callVars>>
    /\ UNCHANGED <<compressionLevel, byteLength, compressedPdfBytes>>
    /\ UNCHANGED <<selectVars, mergeVars, cfVars>>

\* no other save is to be made: the final test and the return
CpdReturn ==
    /\ cpd = "loaded"
    /\ Len(saves) > 0
    /\ ~anotherAttempt
    /\ blob' = returnBlob
    /\ cpd' = "done"
    /\ UNCHANGED <<parseVars, uiVars, callVars>>
    /\ UNCHANGED <<compressionLevel, byteLength, compressedPdfBytes, saves>>
    /\ UNCHANGED <<selectVars, mergeVars, cfVars>>

NextCompress ==
    \/ CpdRead
    \/ CpdReadFails
    \/ CpdNoLevel
    \/ CpdLoad
    \/ CpdLoadThrows
    \/ \E n \in 0..(MaxSize + 1) : CpdSave(n)
    \/ CpdSaveThrows
    \/ CpdReturn

CompressSpec == InitCompress /\ [][NextCompress]_vars

\* the attempts that returned an output smaller than the original
SmallerAttempts ==
    {k \in 1..Len(saves) : ~saves[k].threw /\ saves[k].size < byteLength}

(***************************************************************************)
(* C20: for a PDF file and a compression level createProcessedDocument     *)
(* makes at most four save attempts in the order direct save, re-copied    *)
(* save, maximum compression, image downsampling; it makes attempt k+1     *)
(* only if the output of attempt k is not strictly smaller than the        *)
(* original; it returns the output of the first attempt that is strictly   *)
(* smaller than the original and the original bytes when no attempt is, so *)
(* that the result is never larger than the original.                      *)
(***************************************************************************)
C20_SaveAttempts ==
    (pc = "compress" /\ ~Falsy(compressionLevel)) =>
        /\ Len(saves) <= 4
        /\ \A k \in 1..Len(saves) : saves[k].attempt = SaveOrder[k]
        /\ \A k \in 1..(Len(saves) - 1) :
               ~saves[k].threw /\ saves[k].size >= byteLength
        /\ cpd = "done" =>
               /\ SmallerAttempts # {} =>
                      LET k == CHOOSE i \in SmallerAttempts :
                                   \A j \in SmallerAttempts : i <= j
                      IN  /\ blob.bytes = SaveOrder[k]
                          /\ blob.size = saves[k].size
               /\ SmallerAttempts = {} =>
                      /\ blob.bytes = "original"
                      /\ blob.size = byteLength
               /\ blob.size <= byteLength

C20_Witness ==
    /\ pc = "compress"
    /\ cpd = "done"
    /\ ~Falsy(compressionLevel)
    /\ Len(saves) = 3
    /\ saves[1].size > byteLength
    /\ saves[2].size = byteLength
    /\ blob.bytes = "maximum compression"
    /\ blob.size < byteLength

\* loading the document or the last save attempt threw
CpdThrew ==
    /\ cpd = "done"
    /\ ~Falsy(compressionLevel)
    /\ (saves = <<>> \/ saves[Len(saves)].threw)

\* what createProcessedDocument does when the load or a save throws, and
\* when no compression level is passed
CpdFallsBack ==
    /\ CpdThrew =>
           blob = [bytes |-> "original", size |-> byteLength,
                   type |-> "fileType"]
    /\ Falsy(compressionLevel) =>
           /\ cpd # "loaded"
           /\ saves = <<>>
           /\ cpd = "done" =>
                  blob = [bytes |-> "original", size |-> byteLength,
                          type |-> "fileType"]

(***************************************************************************)
(* C21, as stated: createProcessedDocument never rejects for a PDF; when   *)
(* loading the document or a save attempt throws it returns a blob with    *)
(* the original bytes and the original type, and when no compression level *)
(* is passed it returns the original content without loading or saving.    *)
(***************************************************************************)
C21_NeverRejects ==
    pc = "compress" => (cpd # "rejected" /\ CpdFallsBack)

(***************************************************************************)
(* C21, amended: once originalFile.arrayBuffer() has resolved,             *)
(* createProcessedDocument does not reject for a PDF; when loading the     *)
(* document or a save attempt throws it returns a blob with the original   *)
(* bytes and the original type, and when no compression level is passed it *)
(* returns the original content without loading or saving.  The call       *)
(* rejects when reading the file fails.                                    *)
(***************************************************************************)
C21_NeverRejectsOnceRead ==
    /\ [](pc = "compress" => CpdFallsBack)
    /\ [][(pc = "compress" /\ cpd # "called") => cpd' # "rejected"]_vars

C21_Witness ==
    /\ pc = "compress"
    /\ CpdThrew
    /\ Len(saves) = 3
    /\ saves[3].threw
    /\ blob.bytes = "original"
    /\ blob.type = "fileType"

\* page p is a page of the loaded document
InDocument(p) == 1 <= p /\ p <= originalFile.pages

\* no page number is repeated in the list given
NoRepeats ==
    \A i, j \in 1..Len(pageNumbers) :
        i # j => pageNumbers[i] # pageNumbers[j]

(***************************************************************************)
(* C23: for any list of page numbers given to createSplitDocuments and any *)
(* page count of the loaded PDF, the pages below 1 or above the page count *)
(* are skipped and are in no range, and skipping them does not disturb the *)
(* grouping: the ranges are the maximal runs of consecutive pages of the   *)
(* in-range pages of the list, taken in ascending order.                   *)
(***************************************************************************)
C23_OutOfRangeSkipped ==
    Built =>
        /\ \A i \in 1..Len(ranges) :
               /\ Len(ranges[i]) > 0
               /\ \A k \in 1..Len(ranges[i]) : InDocument(ranges[i][k])
               /\ \A k \in 2..Len(ranges[i]) :
                      ranges[i][k] = ranges[i][k - 1] + 1
        /\ \A i \in 2..Len(ranges) :
               /\ First(ranges[i]) >= Last(ranges[i - 1])
               /\ First(ranges[i]) # Last(ranges[i - 1]) + 1
        /\ \A p \in 0..(originalFile.pages + 1) :
               Occurrences(Flatten(ranges), p) =
                   IF InDocument(p) THEN Occurrences(pageNumbers, p) ELSE 0
        /\ NoRepeats =>
               \A i \in 2..Len(ranges) :
                   First(ranges[i]) > Last(ranges[i - 1]) + 1

C23_Witness ==
    /\ Built
    /\ originalFile.pages = 2
    /\ pageNumbers = <<2, 0, 1>>
    /\ ranges = <<<<1, 2>>>>

(***************************************************************************)
(* C24: for every list of page numbers passed to createSplitDocuments, in  *)
(* any order and with page numbers repeated, the ranges built are pairwise *)
(* disjoint and ascending: no page number is in more than one range or     *)
(* more than once in a range.                                              *)
(***************************************************************************)
C24_RangesDisjoint ==
    Built =>
        /\ \A i \in 1..Len(ranges) : StrictlyAscending(ranges[i])
        /\ \A i, j \in 1..Len(ranges) :
               i < j =>
                   /\ Elements(ranges[i]) \cap Elements(ranges[j]) = {}
                   /\ Last(ranges[i]) < First(ranges[j])

(***************************************************************************)
(* createMergedDocument on PDF files.  A page of the merged document is    *)
(* <<k, p>>: the page at the 0-based index p of the k-th input file.       *)
(* mergePc.file is the position of the for-of loop over files.             *)
(***************************************************************************)
\* the most files merged, and the most pages of one of them
MaxMergeFiles == 3
MaxMergePages == 2

\* pdfDoc.getPageIndices()
getPageIndices(file) == [k \in 1..file.pages |-> k - 1]

\* mergedPdf.copyPages(pdfDoc, indices) for the k-th file: its pages at the
\* indices, in the order of the indices
copyPages(k, indices) == [j \in 1..Len(indices) |-> <<k, indices[j]>>]

\* mutant of addPages: each page is put in front of the pages added before
addPagesInFront(doc, pages) ==
    [j \in 1..(Len(pages) + Len(doc)) |->
        IF j <= Len(pages) THEN pages[Len(pages) + 1 - j]
        ELSE doc[j - Len(pages)]]

\* pages.forEach(page => mergedPdf.addPage(page))
addPages(doc, pages) == doc \o pages

MergeInputs ==
    UNION {[1..n -> {[name |-> name, pages |-> m] :
                        name \in PdfFileNames, m \in 0..MaxMergePages}] :
           n \in 0..MaxMergeFiles}

\* a call of createMergedDocument on PDF files
InitMerge ==
    /\ files \in MergeInputs
    /\ mergedPdf = <<>>
    /\ mergePc = [at |-> "called", file |-> 0]
    /\ mergePromise = [state |-> "pending", value |-> <<>>]
    /\ pc = "merge"
    /\ splitRange = <<>>
    /\ totalPages = 0
    /\ pageNumbers = <<>>
    /\ ranges = <<>>
    /\ splitFiles = <<>>
    /\ UiIdle
    /\ CallIdle
    /\ CompressIdle
    /\ SelectIdle
    /\ CfIdle

\* no file: throw new Error('No files to merge')
MergeNoFiles ==
    /\ mergePc.at = "called"
    /\ Len(files) = 0
    /\ mergePromise' = [state |-> "rejected", value |-> <<"No files to merge">>]
    /\ mergePc' = [at |-> "done", file |-> 0]
    /\ UNCHANGED <<files, mergedPdf>>
    /\ UNCHANGED <<parseVars, uiVars, callVars, compressVars, selectVars, cfVars>>

\* the first file is a PDF: PDFDocument.create() and the start of the loop
MergeCreate ==
    /\ mergePc.at = "called"
    /\ Len(files) > 0
    /\ fileExtension(files[1]) = <<"p", "d", "f">>
    /\ mergePc' = [at |-> "loop", file |-> 1]
    /\ UNCHANGED <<files, mergedPdf, mergePromise>>
    /\ UNCHANGED <<parseVars, uiVars, callVars, compressVars, selectVars, cfVars>>

\* one turn of the loop: the file is read and loaded and its pages are
\* copied and added
MergeFile ==
    /\ mergePc.at = "loop"
    /\ mergePc.file <= Len(files)
    /\ mergedPdf' = addPages(mergedPdf,
                             copyPages(mergePc.file,
                                       getPageIndices(files[mergePc.file])))
    /\ mergePc' = [at |-> "loop", file |-> mergePc.file + 1]
    /\ UNCHANGED <<files, mergePromise>>
    /\ UNCHANGED <<parseVars, uiVars, callVars, compressVars, selectVars, cfVars>>

\* arrayBuffer, PDFDocument.load or copyPages throws for the file: the catch
\* throws 'Failed to merge PDF files: ...'
MergeFileFails ==
    /\ mergePc.at = "loop"
    /\ mergePc.file <= Len(files)
    /\ mergePromise' = [state |-> "rejected",
                        value |-> <<"Failed to merge PDF files: ", "load">>]
    /\ mergePc' = [at |-> "done", file |-> mergePc.file]
    /\ UNCHANGED <<files, mergedPdf>>
    /\ UNCHANGED <<parseVars, uiVars, callVars, compressVars, selectVars, cfVars>>

\* after the loop: mergedPdf.save() and the blob returned
MergeSave ==
    /\ mergePc.at = "loop"
    /\ mergePc.file > Len(files)
    /\ mergePromise' = [state |-> "fulfilled", value |-> mergedPdf]
    /\ mergePc' = [at |-> "done", file |-> mergePc.file]
    /\ UNCHANGED <<files, mergedPdf>>
    /\ UNCHANGED <<parseVars, uiVars, callVars, compressVars, selectVars, cfVars>>

\* mergedPdf.save() throws
MergeSaveFails ==
    /\ mergePc.at = "loop"
    /\ mergePc.file > Len(files)
    /\ mergePromise' = [state |-> "rejected",
                        value |-> <<"Failed to merge PDF files: ", "save">>]
    /\ mergePc' = [at |-> "done", file |-> mergePc.file]
    /\ UNCHANGED <<files, mergedPdf>>
    /\ UNCHANGED <<parseVars, uiVars, callVars, compressVars, selectVars, cfVars>>

NextMerge ==
    \/ MergeNoFiles
    \/ MergeCreate
    \/ MergeFile
    \/ MergeFileFails
    \/ MergeSave
    \/ MergeSaveFails

MergeSpec == InitMerge /\ [][NextMerge]_vars

RECURSIVE PagesBefore(_)
\* the pages of the files before the k-th
PagesBefore(k) == IF k <= 1 THEN 0 ELSE PagesBefore(k - 1) + files[k - 1].pages

(***************************************************************************)
(* C29: for PDF inputs createMergedDocument returns a document whose pages *)
(* are the pages of the input files in input order, each page once (page   *)
(* count = sum of the inputs' page counts); it throws "No files to merge"  *)
(* for an empty list; and if an input fails to load it rejects with        *)
(* "Failed to merge PDF files" and returns no partial document.            *)
(***************************************************************************)
C29_MergeConcatenates ==
    mergePc.at = "done" =>
        /\ mergePromise.state \in {"fulfilled", "rejected"}
        /\ mergePromise.state = "fulfilled" =>
               /\ Len(files) > 0
               /\ Len(mergePromise.value) = PagesBefore(Len(files) + 1)
               /\ \A k \in 1..Len(files) :
                      \A p \in 0..(files[k].pages - 1) :
                          mergePromise.value[PagesBefore(k) + p + 1] = <<k, p>>
        /\ Len(files) = 0 =>
               mergePromise =
                   [state |-> "rejected", value |-> <<"No files to merge">>]
        /\ (Len(files) > 0 /\ mergePc.file <= Len(files)) =>
               /\ mergePromise.state = "rejected"
               /\ Len(mergePromise.value) = 2
               /\ mergePromise.value[1] = "Failed to merge PDF files: "

C29_Witness ==
    /\ mergePc.at = "done"
    /\ mergePromise.state = "fulfilled"
    /\ Len(files) = 3
    /\ files[1].pages = 2
    /\ files[2].pages = 0
    /\ files[3].pages = 2
    /\ mergePromise.value = <<<<1, 0>>, <<1, 1>>, <<3, 0>>, <<3, 1>>>>

\* the load of the second file failed after the pages of the first were added
C29_PartialWitness ==
    /\ mergePc = [at |-> "done", file |-> 2]
    /\ Len(mergedPdf) > 0
    /\ mergePromise.state = "rejected"

(***************************************************************************)
(* The SplitDocuments component from its mount: the file is selected with  *)
(* handleFileSelect, whose calls may overlap, removed with the Remove      *)
(* button, and split with handleSplit.  A file is a record of its name,    *)
(* page count and size; reading or loading any file may fail.              *)
(***************************************************************************)
maxFileSize == 50 * 1024 * 1024

File(name, pages, size) == [name |-> name, pages |-> pages, size |-> size]

\* a.pdf of 7 pages, b.PDF of 10 pages and of the largest size allowed, a
\* text file and a PDF above the size limit
SelectableFiles ==
    { File(<<"a", ".", "p", "d", "f">>, 7, 1),
      File(<<"b", ".", "P", "D", "F">>, 10, maxFileSize),
      File(<<"c", ".", "t", "x", "t">>, 1, 1),
      File(<<"l", ".", "p", "d", "f">>, 1, maxFileSize + 1) }

\* acceptedTypes.includes('.' + extension)
acceptedType(file) == fileExtension(file) = <<"p", "d", "f">>

\* the component as mounted
InitSplitDocuments ==
    /\ splitRange = <<>>
    /\ totalPages = 0
    /\ pageNumbers = <<>>
    /\ ranges = <<>>
    /\ splitFiles = <<>>
    /\ pc = "idle"
    /\ UiIdle
    /\ CallIdle
    /\ CompressIdle
    /\ SelectIdle
    /\ MergeIdle
    /\ CfIdle

\* handleFileSelect up to its first await; the input and the drop zone are
\* rendered while no file is uploaded
HandleFileSelect(file) ==
    /\ uploadedFile = NoFile
    /\ file \notin loads
    /\ IF ~acceptedType(file)
       THEN toast' = "Invalid file type" /\ UNCHANGED loads
       ELSE IF file.size > maxFileSize
            THEN toast' = "File too large" /\ UNCHANGED loads
            ELSE loads' = loads \cup {file} /\ UNCHANGED toast
    /\ UNCHANGED <<parseVars, uploadedFile, isProcessing>>
    /\ UNCHANGED <<callVars, compressVars, mergeVars, cfVars>>

\* handleFileSelect after the awaits: the file was read and loaded
HfsLoaded(file) ==
    /\ file \in loads
    /\ loads' = loads \ {file}
    /\ totalPages' = file.pages
    /\ uploadedFile' = file
    /\ UNCHANGED <<splitRange, pageNumbers, ranges, splitFiles, pc>>
    /\ UNCHANGED <<isProcessing, toast>>
    /\ UNCHANGED <<callVars, compressVars, mergeVars, cfVars>>

\* handleFileSelect after the awaits: arrayBuffer or PDFDocument.load threw
HfsLoadFails(file) ==
    /\ file \in loads
    /\ loads' = loads \ {file}
    /\ toast' = "Error loading PDF"
    /\ UNCHANGED <<parseVars, uploadedFile, isProcessing>>
    /\ UNCHANGED <<callVars, compressVars, mergeVars, cfVars>>

\* mutant of Remove: totalPages is not reset
RemoveKeepsPages ==
    /\ uploadedFile # NoFile
    /\ uploadedFile' = NoFile
    /\ splitRange' = <<>>
    /\ UNCHANGED <<totalPages, pageNumbers, ranges, splitFiles, pc>>
    /\ UNCHANGED <<isProcessing, toast>>
    /\ UNCHANGED <<callVars, compressVars, selectVars, mergeVars, cfVars>>

\* onClick of the Remove button, rendered while a file is uploaded
Remove ==
    /\ uploadedFile # NoFile
    /\ uploadedFile' = NoFile
    /\ totalPages' = 0
    /\ splitRange' = <<>>
    /\ UNCHANGED <<pageNumbers, ranges, splitFiles, pc>>
    /\ UNCHANGED <<isProcessing, toast>>
    /\ UNCHANGED <<callVars, compressVars, selectVars, mergeVars, cfVars>>

NextSplitDocuments ==
    \/ \E file \in SelectableFiles : HandleFileSelect(file)
    \/ \E file \in SelectableFiles : HfsLoaded(file)
    \/ \E file \in SelectableFiles : HfsLoadFails(file)
    \/ Remove
    \/ SetSplitRange
    \/ HandleSplit
    \/ CreateSplitDocumentsStep
    \/ HandleSplitResolved
    \/ HandleSplitRejected

SplitDocumentsSpec == InitSplitDocuments /\ [][NextSplitDocuments]_vars

\* weak fairness of CsdLoad, written out: a step of CsdLoad is possible
\* exactly when csd = "called"
FairCsdLoad == []<>(csd # "called") \/ []<><<CsdLoad>>_vars

\* the promises of createSplitDocuments settle and the continuation of
\* handleSplit runs
LiveSplitDocumentsSpec ==
    /\ SplitDocumentsSpec
    /\ FairCsdLoad
    /\ WF_vars(\E i \in 1..Len(ranges) : CsdExtract(i))
    /\ WF_vars(CsdResolve)
    /\ WF_vars(HandleSplitResolved)
    /\ WF_vars(HandleSplitRejected)

(***************************************************************************)
(* C25: every run of handleSplit that sets isProcessing to true eventually *)
(* sets it back to false, whether createSplitDocuments resolves or         *)
(* rejects; and while isProcessing is true the Start Split button is       *)
(* disabled, so that a call of createSplitDocuments is in flight exactly   *)
(* when isProcessing is true and no second one can be started.             *)
(***************************************************************************)
C25_ProcessingEnds ==
    /\ [](isProcessing => ~StartSplitEnabled)
    /\ [](isProcessing <=> pc = "awaiting")
    /\ [](isProcessing <=> csd # "idle")
    /\ (isProcessing ~> ~isProcessing)
    /\ [][(isProcessing /\ ~isProcessing') =>
             toast' \in {"Split complete", "Split failed"}]_vars

C25_Witness ==
    /\ isProcessing
    /\ csd = "extracting"
    /\ Len(completed) > 0
    /\ uploadedFile # NoFile
    /\ Len(trim(splitRange)) > 0
    /\ Len(splitFiles) > 0

\* the file passes the extension and size checks of handleFileSelect
Accepted(file) ==
    /\ file \in SelectableFiles
    /\ fileExtension(file) = <<"p", "d", "f">>
    /\ file.size <= maxFileSize

(***************************************************************************)
(* C27: after any interleaving of overlapping handleFileSelect calls and   *)
(* Remove clicks, uploadedFile is either null with totalPages 0 or a file  *)
(* that passed the extension and size checks and was loaded, with          *)
(* totalPages the page count of that same file; a file that fails a check  *)
(* or fails to load changes neither uploadedFile nor totalPages.           *)
(***************************************************************************)
C27_FileAndPagesAgree ==
    /\ [](\/ uploadedFile = NoFile /\ totalPages = 0
          \/ Accepted(uploadedFile) /\ totalPages = uploadedFile.pages)
    /\ [][(uploadedFile' # uploadedFile \/ totalPages' # totalPages) =>
             \/ uploadedFile' = NoFile /\ totalPages' = 0
             \/ /\ uploadedFile' \in loads
                /\ Accepted(uploadedFile')
                /\ totalPages' = uploadedFile'.pages
                /\ toast' = toast]_vars

\* b.PDF was loaded after a.pdf, whose call had started first, and a Remove
C27_Witness ==
    /\ uploadedFile \in SelectableFiles
    /\ uploadedFile.pages = 10
    /\ totalPages = 10
    /\ toast = "Error loading PDF"
    /\ \E file \in loads : file.pages = 7

\* the base name handleSplit gives the documents of a file
baseName(file) == replace(file.name, <<".", "p", "d", "f">>, <<>>)

\* the document was made by a split of the file
ProducedFrom(doc, file) ==
    /\ Len(doc.name) >= Len(baseName(file))
    /\ SubSeq(doc.name, 1, Len(baseName(file))) = baseName(file)

(***************************************************************************)
(* C30: whenever split results are displayed (splitFiles non-empty) while  *)
(* a file is uploaded, the results were produced from the uploaded file:   *)
(* after Remove, after a later upload of a different file, or when a split *)
(* started on a removed file completes, no result of a previous file       *)
(* remains in splitFiles.                                                  *)
(***************************************************************************)
C30_ResultsOfCurrentFile ==
    (uploadedFile # NoFile) =>
        \A k \in 1..Len(splitFiles) : ProducedFrom(splitFiles[k], uploadedFile)

(***************************************************************************)
(* The CompressFiles component with the FileUpload widget it mounts while  *)
(* showUpload holds.  A file is a record of its name, size and type; only  *)
(* the sizes of the contents matter.  FileUpload keeps its own list of     *)
(* files and reports to CompressFiles through onFilesUploaded, which is    *)
(* handleFileUpload.  A run of compressFiles works on the uploadedFiles of *)
(* the render it was started from.  The uploads are followed from the      *)
(* mount of the component, the runs from the other view with any list of   *)
(* files the uploads can leave there.                                      *)
(***************************************************************************)
\* the longest list of files CompressFiles holds
MaxUploaded == 3
\* the most files of one selection or drop
MaxSelected == 2

\* FileUpload: 10 * 1024 * 1024 of validateFiles
fileUploadLimit == 10 * 1024 * 1024
\* CompressFiles: maxFileSize
compressMaxFileSize == 50 * 1024 * 1024

UploadFile(name, size, type) == [name |-> name, size |-> size, type |-> type]

\* a.pdf with the type of a PDF and b.PDF to which the browser gave no type
CompressibleFiles ==
    { UploadFile(<<"a", ".", "p", "d", "f">>, 2, "application/pdf"),
      UploadFile(<<"b", ".", "P", "D", "F">>, 2, "") }

\* those, a text file and a PDF between the two size limits
UploadableFiles ==
    CompressibleFiles \cup
    { UploadFile(<<"c", ".", "t", "x", "t">>, 1, "text/plain"),
      UploadFile(<<"l", ".", "p", "d", "f">>, fileUploadLimit + 1,
                 "application/pdf") }

\* what the user selects or drops at once
Selections ==
    UNION { [1..n -> UploadableFiles] : n \in 1..MaxSelected }

\* FileUpload.validateFiles
validFormat(file) == fileExtension(file) = <<"p", "d", "f">>
validateFiles(selection) ==
    LET valid(file) == validFormat(file) /\ file.size <= fileUploadLimit
    IN  SelectSeq(selection, valid)

\* CompressFiles.handleFileUpload: the files it appends
validFiles(selection) ==
    LET valid(file) == validFormat(file) /\ file.size <= compressMaxFileSize
    IN  SelectSeq(selection, valid)

\* the toast shown last by a filter with the size limit given, t when every
\* file passes
RECURSIVE filterToast(_, _, _)
filterToast(selection, limit, t) ==
    IF selection = <<>>
    THEN t
    ELSE LET file == selection[Len(selection)]
         IN  IF ~validFormat(file) THEN "Invalid file format"
             ELSE IF file.size > limit THEN "File too large"
             ELSE filterToast(SubSeq(selection, 1, Len(selection) - 1),
                              limit, t)

\* handleFileUpload: setUploadedFiles(prev => [...prev, ...validFiles])
handleFileUpload(selection) == uploadedFiles \o validFiles(selection)

\* filter((_, i) => i !== index), index counted from 1
withoutIndex(list, index) ==
    SubSeq(list, 1, index - 1) \o SubSeq(list, index + 1, Len(list))

\* the component as mounted
InitFileUpload ==
    /\ splitRange = <<>>
    /\ totalPages = 0
    /\ pageNumbers = <<>>
    /\ ranges = <<>>
    /\ splitFiles = <<>>
    /\ pc = "idle"
    /\ UiIdle
    /\ CallIdle
    /\ CompressIdle
    /\ SelectIdle
    /\ MergeIdle
    /\ CfIdle

\* FileUpload.handleFileChange: the whole new list goes to onFilesUploaded
HandleFileChange(selection) ==
    /\ showUpload
    /\ LET valid == validateFiles(selection)
           newFiles == fileUploadFiles \o valid
       IN  IF valid = <<>>
           THEN /\ toast' = filterToast(selection, fileUploadLimit, toast)
                /\ UNCHANGED <<fileUploadFiles, uploadedFiles>>
           ELSE /\ Len(handleFileUpload(newFiles)) <= MaxUploaded
                /\ fileUploadFiles' = newFiles
                /\ uploadedFiles' = handleFileUpload(newFiles)
                /\ toast' = "Files uploaded successfully"
    /\ UNCHANGED <<compressedFiles, isCompressing, showUpload, compressed,
                   cfIndex, closureFiles, cfPc>>
    /\ UNCHANGED <<parseVars, uploadedFile, isProcessing>>
    /\ UNCHANGED <<callVars, compressVars, selectVars, mergeVars>>

\* FileUpload.handleDrop: the valid files of the drop go to onFilesUploaded
HandleDrop(selection) ==
    /\ showUpload
    /\ LET valid == validateFiles(selection)
       IN  /\ toast' =
                 filterToast(valid, compressMaxFileSize,
                             filterToast(selection, fileUploadLimit, toast))
           /\ IF valid = <<>>
              THEN UNCHANGED <<fileUploadFiles, uploadedFiles>>
              ELSE /\ Len(handleFileUpload(valid)) <= MaxUploaded
                   /\ Len(fileUploadFiles \o valid) <= MaxUploaded
                   /\ fileUploadFiles' = fileUploadFiles \o valid
                   /\ uploadedFiles' = handleFileUpload(valid)
    /\ UNCHANGED <<compressedFiles, isCompressing, showUpload, compressed,
                   cfIndex, closureFiles, cfPc>>
    /\ UNCHANGED <<parseVars, uploadedFile, isProcessing>>
    /\ UNCHANGED <<callVars, compressVars, selectVars, mergeVars>>

\* FileUpload.removeFile: the remaining list goes to onFilesUploaded
FileUploadRemoveFile(index) ==
    /\ showUpload
    /\ index \in 1..Len(fileUploadFiles)
    /\ LET newFiles == withoutIndex(fileUploadFiles, index)
       IN  /\ Len(handleFileUpload(newFiles)) <= MaxUploaded
           /\ fileUploadFiles' = newFiles
           /\ uploadedFiles' = handleFileUpload(newFiles)
    /\ UNCHANGED <<compressedFiles, isCompressing, showUpload, compressed,
                   cfIndex, closureFiles, cfPc>>
    /\ UNCHANGED <<parseVars, uiVars>>
    /\ UNCHANGED <<callVars, compressVars, selectVars, mergeVars>>

\* handleNext, from the button FileUpload shows under its list: the upload
\* view, and FileUpload with its state, goes away
HandleNext ==
    /\ showUpload
    /\ Len(fileUploadFiles) > 0
    /\ showUpload' = FALSE
    /\ fileUploadFiles' = <<>>
    /\ UNCHANGED <<uploadedFiles, compressedFiles, isCompressing, compressed,
                   cfIndex, closureFiles, cfPc>>
    /\ UNCHANGED <<parseVars, uiVars>>
    /\ UNCHANGED <<callVars, compressVars, selectVars, mergeVars>>

\* Back to Upload: FileUpload is mounted anew
BackToUpload ==
    /\ ~showUpload
    /\ showUpload' = TRUE
    /\ UNCHANGED <<uploadedFiles, fileUploadFiles, compressedFiles,
                   isCompressing, compressed, cfIndex, closureFiles, cfPc>>
    /\ UNCHANGED <<parseVars, uiVars>>
    /\ UNCHANGED <<callVars, compressVars, selectVars, mergeVars>>

\* CompressFiles.removeFile, from the X of a listed file
RemoveFile(index) ==
    /\ ~showUpload
    /\ index \in 1..Len(uploadedFiles)
    /\ uploadedFiles' = withoutIndex(uploadedFiles, index)
    /\ UNCHANGED <<fileUploadFiles, compressedFiles, isCompressing,
                   showUpload, compressed, cfIndex, closureFiles, cfPc>>
    /\ UNCHANGED <<parseVars, uiVars>>
    /\ UNCHANGED <<callVars, compressVars, selectVars, mergeVars>>

NextFileUpload ==
    \/ \E selection \in Selections : HandleFileChange(selection)
    \/ \E selection \in Selections : HandleDrop(selection)
    \/ \E index \in 1..MaxUploaded : FileUploadRemoveFile(index)
    \/ HandleNext
    \/ BackToUpload
    \/ \E index \in 1..MaxUploaded : RemoveFile(index)

FileUploadSpec == InitFileUpload /\ [][NextFileUpload]_vars

\* the lists of one or two files to compress, and the empty list
CompressibleLists ==
    {<<>>} \cup {<<file>> : file \in CompressibleFiles}
           \cup (CompressibleFiles \X CompressibleFiles)

\* the view with the list of files, the Compress button and the results
InitCompressFiles ==
    /\ uploadedFiles \in CompressibleLists
    /\ fileUploadFiles = <<>>
    /\ compressedFiles = <<>>
    /\ isCompressing = FALSE
    /\ showUpload = FALSE
    /\ compressed = <<>>
    /\ cfIndex = 0
    /\ closureFiles = <<>>
    /\ cfPc = "idle"
    /\ splitRange = <<>>
    /\ totalPages = 0
    /\ pageNumbers = <<>>
    /\ ranges = <<>>
    /\ splitFiles = <<>>
    /\ pc = "idle"
    /\ UiIdle
    /\ CallIdle
    /\ CompressIdle
    /\ SelectIdle
    /\ MergeIdle

\* the sizes PDFDocument.save may give the output: smaller than the size
\* given, equal to it, or larger
SavedSizes(size) == (size - 1)..(size + 1)

\* compressFiles up to its first await; the button that calls it is
\* disabled during a run
CompressFilesStart ==
    /\ ~showUpload
    /\ ~isCompressing
    /\ IF Len(uploadedFiles) = 0
       THEN /\ toast' = "No files selected"
            /\ UNCHANGED <<isCompressing, compressed, cfIndex, closureFiles,
                           cfPc>>
       ELSE /\ isCompressing' = TRUE
            /\ compressed' = <<>>
            /\ cfIndex' = 1
            /\ closureFiles' = uploadedFiles
            /\ cfPc' = "loop"
            /\ UNCHANGED toast
    /\ UNCHANGED <<uploadedFiles, fileUploadFiles, compressedFiles,
                   showUpload>>
    /\ UNCHANGED <<parseVars, uploadedFile, isProcessing>>
    /\ UNCHANGED <<callVars, compressVars, selectVars, mergeVars>>

\* the entry pushed for a file whose output has the size given; the ratio
\* is kept by its integer part
compressedFile(file, size) ==
    [name |-> file.name, originalSize |-> file.size, compressedSize |-> size,
     compressionRatio |-> ((file.size - size) * 100) \div file.size,
     type |-> file.type]

\* after compressed.push: the next turn of the loop, or after the last file
\* setCompressedFiles, setIsCompressing(false) and the toast
afterPush(list) ==
    IF cfIndex = Len(closureFiles)
    THEN /\ compressedFiles' = list
         /\ isCompressing' = FALSE
         /\ toast' = "Compression complete"
         /\ compressed' = <<>>
         /\ cfIndex' = 0
         /\ closureFiles' = <<>>
         /\ cfPc' = "idle"
    ELSE /\ compressed' = list
         /\ cfIndex' = cfIndex + 1
         /\ cfPc' = "loop"
         /\ UNCHANGED <<compressedFiles, isCompressing, toast, closureFiles>>

\* mutant of catchError: the results so far are stored
catchErrorStores ==
    /\ compressedFiles' = compressed
    /\ isCompressing' = FALSE
    /\ toast' = "Compression failed"
    /\ compressed' = <<>>
    /\ cfIndex' = 0
    /\ closureFiles' = <<>>
    /\ cfPc' = "idle"

\* the catch of compressFiles
catchError ==
    /\ isCompressing' = FALSE
    /\ toast' = "Compression failed"
    /\ compressed' = <<>>
    /\ cfIndex' = 0
    /\ closureFiles' = <<>>
    /\ cfPc' = "idle"
    /\ UNCHANGED compressedFiles

\* a file of type application/pdf is read, loaded and saved once: the
\* output, of any size, is the result
CfSavePdf ==
    /\ cfPc = "loop"
    /\ closureFiles[cfIndex].type = "application/pdf"
    /\ \E n \in SavedSizes(closureFiles[cfIndex].size) :
           afterPush(Append(compressed,
                            compressedFile(closureFiles[cfIndex], n)))
    /\ UNCHANGED <<uploadedFiles, fileUploadFiles, showUpload>>
    /\ UNCHANGED <<parseVars, uploadedFile, isProcessing>>
    /\ UNCHANGED <<callVars, compressVars, selectVars, mergeVars>>

\* arrayBuffer, PDFDocument.load or save throws for such a file
CfSavePdfThrows ==
    /\ cfPc = "loop"
    /\ closureFiles[cfIndex].type = "application/pdf"
    /\ catchError
    /\ UNCHANGED <<uploadedFiles, fileUploadFiles, showUpload>>
    /\ UNCHANGED <<parseVars, uploadedFile, isProcessing>>
    /\ UNCHANGED <<callVars, compressVars, selectVars, mergeVars>>

\* a file of another type goes to createProcessedDocument with the level of
\* compressionOptions
CfCallProcessed ==
    /\ cfPc = "loop"
    /\ closureFiles[cfIndex].type # "application/pdf"
    /\ cfPc' = "awaiting"
    /\ originalFile' = [name |-> closureFiles[cfIndex].name, pages |-> 1]
    /\ byteLength' = closureFiles[cfIndex].size
    /\ compressionLevel' = "medium"
    /\ cpd' = "called"
    /\ UNCHANGED <<compressedPdfBytes, saves, blob>>
    /\ UNCHANGED <<namingPattern, csd, extracted, completed, promise,
                   returned, error>>
    /\ UNCHANGED <<uploadedFiles, fileUploadFiles, compressedFiles,
                   isCompressing, showUpload, compressed, cfIndex,
                   closureFiles>>
    /\ UNCHANGED <<parseVars, uiVars, selectVars, mergeVars>>

\* createProcessedDocument has returned its blob
CfProcessedResolved ==
    /\ cfPc = "awaiting"
    /\ cpd = "done"
    /\ afterPush(Append(compressed,
                        compressedFile(closureFiles[cfIndex], blob.size)))
    /\ originalFile' = NoFile
    /\ compressionLevel' = NoLevel
    /\ byteLength' = 0
    /\ compressedPdfBytes' = 0
    /\ saves' = <<>>
    /\ blob' = [bytes |-> "none", size |-> 0, type |-> "none"]
    /\ cpd' = "idle"
    /\ UNCHANGED <<namingPattern, csd, extracted, completed, promise,
                   returned, error>>
    /\ UNCHANGED <<uploadedFiles, fileUploadFiles, showUpload>>
    /\ UNCHANGED <<parseVars, uploadedFile, isProcessing>>
    /\ UNCHANGED <<selectVars, mergeVars>>

\* createProcessedDocument has rejected
CfProcessedRejected ==
    /\ cfPc = "awaiting"
    /\ cpd = "rejected"
    /\ catchError
    /\ originalFile' = NoFile
    /\ compressionLevel' = NoLevel
    /\ byteLength' = 0
    /\ compressedPdfBytes' = 0
    /\ saves' = <<>>
    /\ blob' = [bytes |-> "none", size |-> 0, type |-> "none"]
    /\ cpd' = "idle"
    /\ UNCHANGED <<namingPattern, csd, extracted, completed, promise,
                   returned, error>>
    /\ UNCHANGED <<uploadedFiles, fileUploadFiles, showUpload>>
    /\ UNCHANGED <<parseVars, uploadedFile, isProcessing>>
    /\ UNCHANGED <<selectVars, mergeVars>>

NextCompressFiles ==
    \/ \E index \in 1..Len(uploadedFiles) : RemoveFile(index)
    \/ CompressFilesStart
    \/ CfSavePdf
    \/ CfSavePdfThrows
    \/ CfCallProcessed
    \/ CpdRead
    \/ CpdReadFails
    \/ CpdLoad
    \/ CpdLoadThrows
    \/ \E n \in SavedSizes(byteLength) : CpdSave(n)
    \/ CpdSaveThrows
    \/ CpdReturn
    \/ CfProcessedResolved
    \/ CfProcessedRejected

CompressFilesSpec == InitCompressFiles /\ [][NextCompressFiles]_vars

(***************************************************************************)
(* C22: for every file of a completed run of compressFiles the recorded    *)
(* compressedSize is at most the recorded originalSize, so that the        *)
(* percentage shown as "Reduced by X%" is never negative, for files of     *)
(* type application/pdf as for files sent to createProcessedDocument.      *)
(***************************************************************************)
C22_NeverLarger ==
    \A k \in 1..Len(compressedFiles) :
        /\ compressedFiles[k].compressedSize <= compressedFiles[k].originalSize
        /\ compressedFiles[k].compressionRatio >= 0

\* a run of compressFiles ends at this step
RunEnds == isCompressing /\ ~isCompressing'

\* the results stored are those of the files of the run, in their order
ResultsOfRun ==
    /\ Len(compressedFiles') = Len(closureFiles)
    /\ \A k \in 1..Len(closureFiles) :
           /\ compressedFiles'[k].name = closureFiles[k].name
           /\ compressedFiles'[k].originalSize = closureFiles[k].size
           /\ compressedFiles'[k].type = closureFiles[k].type

(***************************************************************************)
(* C26: compressFiles replaces compressedFiles only when every file of     *)
(* the run has been processed, with one entry per file in upload order;    *)
(* when the processing of a file throws, compressedFiles keeps the value   *)
(* it had; in both cases isCompressing ends false; and with no uploaded    *)
(* file a run does not start: isCompressing and compressedFiles stay as    *)
(* they are.  The files of the run are uploadedFiles at its start.         *)
(***************************************************************************)
C26_ResultsReplacedAtEnd ==
    /\ [](isCompressing <=> cfPc # "idle")
    /\ [][(~isCompressing /\ isCompressing') =>
             /\ Len(uploadedFiles) > 0
             /\ closureFiles' = uploadedFiles
             /\ compressedFiles' = compressedFiles]_vars
    /\ [][RunEnds =>
             \/ /\ toast' = "Compression complete"
                /\ cfIndex = Len(closureFiles)
                /\ Len(compressed) = Len(closureFiles) - 1
                /\ ResultsOfRun
             \/ /\ toast' = "Compression failed"
                /\ compressedFiles' = compressedFiles]_vars
    /\ [][~RunEnds => compressedFiles' = compressedFiles]_vars
    /\ [][(~isCompressing /\ Len(uploadedFiles) = 0) =>
             /\ ~isCompressing'
             /\ compressedFiles' = compressedFiles
             /\ cfPc' = "idle"]_vars

\* a run of two files has stored its results, and a later run has failed
\* at its second file
C26_Witness ==
    /\ Len(compressedFiles) = 2
    /\ toast = "Compression failed"
    /\ ~isCompressing
    /\ Len(uploadedFiles) = 1

(***************************************************************************)
(* C28: after any sequence of selections with the file input, drops and    *)
(* removals in FileUpload, the uploadedFiles of CompressFiles is the list  *)
(* FileUpload displays: the same files in the same order, each as often.   *)
(***************************************************************************)
C28_ListsAgree == showUpload => uploadedFiles = fileUploadFiles

====
